---- MODULE Spec2Model ----
(***************************************************************************)
(* A model of the tariff-code lookup pipeline of the TIA repository:       *)
(* utils/api_client.py (USITCApiClient), utils/llm_service.py (LLMService) *)
(* and utils/product_analyzer.py (ProductAnalyzer), with the duty figures  *)
(* of the Strategy Composer page of app.py.                                *)
(*                                                                         *)
(* Python strings are sequences of one-character strings, so that          *)
(* substring tests, case folding, splitting and stripping are computed.    *)
(* Python dicts are functions whose DOMAIN is the set of keys present.     *)
(* Result records are objects: the heap maps an object id to its dict, and *)
(* lists of results are sequences of ids, so that two lists holding the    *)
(* same dict object see each other's writes, as in Python.                 *)
(***************************************************************************)
EXTENDS Integers, Sequences, FiniteSets, TLC

(***************************************************************************)
(* Strings                                                                 *)
(***************************************************************************)

\* the rank of each character of the model in code-point order (str comparison)
Rank ==
    ("\n" :> 1) @@ (" " :> 2) @@ ("\"" :> 3) @@ ("%" :> 4) @@ ("'" :> 5) @@ ("(" :> 6) @@
    (")" :> 7) @@ ("*" :> 8) @@ ("," :> 9) @@ ("-" :> 10) @@ ("." :> 11) @@ ("/" :> 12) @@
    ("0" :> 13) @@ ("1" :> 14) @@ ("2" :> 15) @@ ("3" :> 16) @@ ("4" :> 17) @@ ("5" :> 18) @@
    ("6" :> 19) @@ ("7" :> 20) @@ ("8" :> 21) @@ ("9" :> 22) @@ (":" :> 23) @@ (";" :> 24) @@
    ("=" :> 25) @@ ("A" :> 26) @@ ("B" :> 27) @@ ("C" :> 28) @@ ("D" :> 29) @@ ("E" :> 30) @@
    ("F" :> 31) @@ ("G" :> 32) @@ ("H" :> 33) @@ ("I" :> 34) @@ ("J" :> 35) @@ ("K" :> 36) @@
    ("L" :> 37) @@ ("M" :> 38) @@ ("N" :> 39) @@ ("O" :> 40) @@ ("P" :> 41) @@ ("Q" :> 42) @@
    ("R" :> 43) @@ ("S" :> 44) @@ ("T" :> 45) @@ ("U" :> 46) @@ ("V" :> 47) @@ ("W" :> 48) @@
    ("X" :> 49) @@ ("Y" :> 50) @@ ("Z" :> 51) @@ ("[" :> 52) @@ ("]" :> 53) @@ ("_" :> 54) @@
    ("a" :> 55) @@ ("b" :> 56) @@ ("c" :> 57) @@ ("d" :> 58) @@ ("e" :> 59) @@ ("f" :> 60) @@
    ("g" :> 61) @@ ("h" :> 62) @@ ("i" :> 63) @@ ("j" :> 64) @@ ("k" :> 65) @@ ("l" :> 66) @@
    ("m" :> 67) @@ ("n" :> 68) @@ ("o" :> 69) @@ ("p" :> 70) @@ ("q" :> 71) @@ ("r" :> 72) @@
    ("s" :> 73) @@ ("t" :> 74) @@ ("u" :> 75) @@ ("v" :> 76) @@ ("w" :> 77) @@ ("x" :> 78) @@
    ("y" :> 79) @@ ("z" :> 80) @@ ("{" :> 81) @@ ("|" :> 82) @@ ("}" :> 83)

Digits == {"0", "1", "2", "3", "4", "5", "6", "7", "8", "9"}

\* a list given by comprehension, as a list value
List(f) == f \o << >>

\* the lower-case letter of each upper-case letter
ToLower ==
    ("A" :> "a") @@ ("B" :> "b") @@ ("C" :> "c") @@ ("D" :> "d") @@ ("E" :> "e") @@ ("F" :> "f") @@
    ("G" :> "g") @@ ("H" :> "h") @@ ("I" :> "i") @@ ("J" :> "j") @@ ("K" :> "k") @@ ("L" :> "l") @@
    ("M" :> "m") @@ ("N" :> "n") @@ ("O" :> "o") @@ ("P" :> "p") @@ ("Q" :> "q") @@ ("R" :> "r") @@
    ("S" :> "s") @@ ("T" :> "t") @@ ("U" :> "u") @@ ("V" :> "v") @@ ("W" :> "w") @@ ("X" :> "x") @@
    ("Y" :> "y") @@ ("Z" :> "z")

\* the upper-case letter of each lower-case letter
ToUpper ==
    ("a" :> "A") @@ ("b" :> "B") @@ ("c" :> "C") @@ ("d" :> "D") @@ ("e" :> "E") @@ ("f" :> "F") @@
    ("g" :> "G") @@ ("h" :> "H") @@ ("i" :> "I") @@ ("j" :> "J") @@ ("k" :> "K") @@ ("l" :> "L") @@
    ("m" :> "M") @@ ("n" :> "N") @@ ("o" :> "O") @@ ("p" :> "P") @@ ("q" :> "Q") @@ ("r" :> "R") @@
    ("s" :> "S") @@ ("t" :> "T") @@ ("u" :> "U") @@ ("v" :> "V") @@ ("w" :> "W") @@ ("x" :> "X") @@
    ("y" :> "Y") @@ ("z" :> "Z")

\* str.upper()
Upper(s) == List([i \in 1..Len(s) |-> IF s[i] \in DOMAIN ToUpper THEN ToUpper[s[i]] ELSE s[i]])

\* str.lower()
Lower(s) == List([i \in 1..Len(s) |-> IF s[i] \in DOMAIN ToLower THEN ToLower[s[i]] ELSE s[i]])

\* Python whitespace, as far as the model's characters go
WhiteSpace == {" ", "\n"}

\* `sub in s` for strings
Contains(s, sub) ==
    \E i \in 1..(Len(s) - Len(sub) + 1) : SubSeq(s, i, i + Len(sub) - 1) = sub

\* `c in s` for one character
HasChar(s, c) == \E i \in 1..Len(s) : s[i] = c

\* str.startswith
StartsWith(s, p) == Len(p) <= Len(s) /\ SubSeq(s, 1, Len(p)) = p

\* str.endswith
EndsWith(s, p) == Len(p) <= Len(s) /\ SubSeq(s, Len(s) - Len(p) + 1, Len(s)) = p

\* str.isdigit(): non-empty and every character a digit
IsDigit(s) == Len(s) > 0 /\ \A i \in 1..Len(s) : s[i] \in Digits

\* str.lstrip(chars)
LStrip(s, chars) ==
    IF \A i \in 1..Len(s) : s[i] \in chars THEN << >>
    ELSE SubSeq(s, CHOOSE i \in 1..Len(s) :
                       s[i] \notin chars /\ \A j \in 1..(i - 1) : s[j] \in chars,
                Len(s))

\* str.rstrip(chars)
RStrip(s, chars) ==
    IF \A i \in 1..Len(s) : s[i] \in chars THEN << >>
    ELSE SubSeq(s, 1, CHOOSE i \in 1..Len(s) :
                          s[i] \notin chars /\ \A j \in (i + 1)..Len(s) : s[j] \in chars)

\* str.strip(chars); str.strip() is Strip(s, WhiteSpace)
Strip(s, chars) == LStrip(RStrip(s, chars), chars)

\* str.replace(c, '') for one character c
Remove(s, c) == SelectSeq(s, LAMBDA x : x # c)

\* position of the first occurrence of character c in s, 0 when absent
FirstIndex(s, c) ==
    IF HasChar(s, c) THEN CHOOSE i \in 1..Len(s) :
                              s[i] = c /\ \A j \in 1..(i - 1) : s[j] # c
    ELSE 0

\* str.split(sep) for a one-character separator: always at least one part
RECURSIVE Split(_, _)
Split(s, sep) ==
    IF ~HasChar(s, sep) THEN << s >>
    ELSE LET i == FirstIndex(s, sep)
         IN  << SubSeq(s, 1, i - 1) >> \o Split(SubSeq(s, i + 1, Len(s)), sep)

\* str.split(sep, 1): the part before the first sep and the rest
Split1(s, sep) ==
    IF ~HasChar(s, sep) THEN << s >>
    ELSE LET i == FirstIndex(s, sep)
         IN  << SubSeq(s, 1, i - 1), SubSeq(s, i + 1, Len(s)) >>

\* str.split(): split on runs of whitespace, no empty parts
RECURSIVE SplitWords(_)
SplitWords(s) ==
    LET t == LStrip(s, WhiteSpace)
    IN  IF Len(t) = 0 THEN << >>
        ELSE IF \E i \in 1..Len(t) : t[i] \in WhiteSpace
             THEN LET i == CHOOSE k \in 1..Len(t) :
                               t[k] \in WhiteSpace
                               /\ \A j \in 1..(k - 1) : t[j] \notin WhiteSpace
                  IN  << SubSeq(t, 1, i - 1) >> \o SplitWords(SubSeq(t, i, Len(t)))
             ELSE << t >>

\* sep.join(parts)
RECURSIVE Join(_, _)
Join(parts, sep) ==
    IF Len(parts) = 0 THEN << >>
    ELSE IF Len(parts) = 1 THEN parts[1]
    ELSE parts[1] \o sep \o Join(Tail(parts), sep)

\* a < b for strings: lexicographic by code point, a proper prefix first
RECURSIVE StrLess(_, _)
StrLess(a, b) ==
    IF Len(b) = 0 THEN FALSE
    ELSE IF Len(a) = 0 THEN TRUE
    ELSE IF a[1] = b[1] THEN StrLess(Tail(a), Tail(b))
    ELSE Rank[a[1]] < Rank[b[1]]

\* the value of each digit
DigitValue ==
    ("0" :> 0) @@ ("1" :> 1) @@ ("2" :> 2) @@ ("3" :> 3) @@ ("4" :> 4) @@
    ("5" :> 5) @@ ("6" :> 6) @@ ("7" :> 7) @@ ("8" :> 8) @@ ("9" :> 9)

\* int(s) for a string of digits
RECURSIVE ToInt(_)
ToInt(s) ==
    IF Len(s) = 0 THEN 0
    ELSE 10 * ToInt(SubSeq(s, 1, Len(s) - 1)) + DigitValue[s[Len(s)]]

\* `x in xs` and xs.index-free helpers for lists
InList(xs, x) == \E i \in 1..Len(xs) : xs[i] = x

\* dict[key] = value
Put(d, k, v) == (k :> v) @@ d

\* dict.get(key, default)
Get(d, k, default) == IF k \in DOMAIN d THEN d[k] ELSE default

(***************************************************************************)
(* Numbers                                                                 *)
(*                                                                         *)
(* A Python float is [kind, num, den]: kind "finite" with the exact        *)
(* fraction num/den in lowest terms, or kind "inf", "-inf" or "nan".       *)
(* Binary rounding is left out: on the amounts of the model it is below    *)
(* 1e-9, and the page prints amounts rounded to whole dollars.             *)
(***************************************************************************)

\* the greatest common divisor of two naturals, not both 0
RECURSIVE GCD(_, _)
GCD(a, b) == IF b = 0 THEN a ELSE GCD(b, a % b)

\* |n|
Abs(n) == IF n < 0 THEN 0 - n ELSE n

\* 10 ** k for k >= 0
RECURSIVE Pow10(_)
Pow10(k) == IF k = 0 THEN 1 ELSE 10 * Pow10(k - 1)

\* the float num/den, den > 0
Float(num, den) ==
    [kind |-> "finite", num |-> num \div GCD(Abs(num), den), den |-> den \div GCD(Abs(num), den)]

\* x * (num/den) for a float x and a positive fraction
Times(x, num, den) ==
    IF x.kind # "finite" THEN x
    ELSE Float((x.num \div GCD(Abs(x.num), den)) * (num \div GCD(num, x.den)),
               (x.den \div GCD(num, x.den)) * (den \div GCD(Abs(x.num), den)))

\* digitpart of the float grammar: digits, single underscores between them
IsDigitPart(s) ==
    /\ Len(s) > 0
    /\ s[1] \in Digits
    /\ s[Len(s)] \in Digits
    /\ \A i \in 1..Len(s) : s[i] \in Digits \cup {"_"}
    /\ \A i \in 1..(Len(s) - 1) : ~(s[i] = "_" /\ s[i + 1] = "_")

\* a string without its leading sign
Unsigned(s) == IF Len(s) > 0 /\ s[1] \in {"+", "-"} THEN Tail(s) ELSE s

\* the mantissa of the float grammar: digitpart [. [digitpart]] or . digitpart
IsMantissa(parts) ==
    IF Len(parts) = 1 THEN IsDigitPart(parts[1])
    ELSE \/ IsDigitPart(parts[1]) /\ (parts[2] = << >> \/ IsDigitPart(parts[2]))
         \/ parts[1] = << >> /\ IsDigitPart(parts[2])

\* the exponent of the float grammar: absent, or [sign] digitpart
IsExponent(parts) == Len(parts) = 1 \/ IsDigitPart(Unsigned(parts[2]))

\* the value of an exponent
ExponentOf(parts) ==
    IF Len(parts) = 1 THEN 0
    ELSE IF parts[2][1] = "-" THEN 0 - ToInt(Remove(Unsigned(parts[2]), "_"))
    ELSE ToInt(Remove(Unsigned(parts[2]), "_"))

\* digits * 10 ** power as a float
Scaled(digits, power) ==
    IF power >= 0 THEN Float(digits * Pow10(power), 1) ELSE Float(digits, Pow10(0 - power))

\* the value of a mantissa and an exponent
NumberOf(mantissa, exponent) ==
    Scaled(ToInt(Remove(mantissa[1] \o (IF Len(mantissa) = 1 THEN << >> ELSE mantissa[2]), "_")),
           ExponentOf(exponent)
           - (IF Len(mantissa) = 1 THEN 0 ELSE Len(Remove(mantissa[2], "_"))))

\* -x
Negated(x) ==
    IF x.kind = "finite" THEN [x EXCEPT !.num = 0 - x.num]
    ELSE IF x.kind = "inf" THEN [x EXCEPT !.kind = "-inf"]
    ELSE x

\* float(s) of an unsigned, lower-case, stripped string: << >> for ValueError,
\* else << the float >>
UnsignedFloat(s) ==
    IF s \in { << "i", "n", "f" >>, << "i", "n", "f", "i", "n", "i", "t", "y" >> }
    THEN << [kind |-> "inf", num |-> 0, den |-> 1] >>
    ELSE IF s = << "n", "a", "n" >> THEN << [kind |-> "nan", num |-> 0, den |-> 1] >>
    ELSE IF IsMantissa(Split1(Split1(s, "e")[1], ".")) /\ IsExponent(Split1(s, "e"))
    THEN << NumberOf(Split1(Split1(s, "e")[1], "."), Split1(s, "e")) >>
    ELSE << >>

\* float(s) for a string: << >> for ValueError, else << the float >>
ToFloat(s) ==
    IF Len(Strip(s, WhiteSpace)) > 0 /\ Strip(s, WhiteSpace)[1] = "-"
    THEN List([i \in 1..Len(UnsignedFloat(Unsigned(Lower(Strip(s, WhiteSpace))))) |->
                  Negated(UnsignedFloat(Unsigned(Lower(Strip(s, WhiteSpace))))[i])])
    ELSE UnsignedFloat(Unsigned(Lower(Strip(s, WhiteSpace))))

(***************************************************************************)
(* The remote tariff service                                               *)
(***************************************************************************)

\* product descriptions a user types
Bumper == << "B", "u", "m", "p", "e", "r" >>
ABolt == << "a", " ", "b", "o", "l", "t", "." >>

\* items of the remote service, under several of the field spellings it uses
ItemBumper ==
    [ htsno |-> << "8", "7", "0", "8", ".", "1", "0" >>,
      description |-> << "S", "t", "e", "e", "l", " ", "b", "u", "m", "p", "e", "r", "s" >>,
      general |-> << "2", ".", "5", "%" >>,
      special |-> [t |-> "str", v |-> << "C", "A", ":", "F", "r", "e", "e", ";", "M", "X", ":", "0", "%" >>] ]

ItemBumperAlt ==
    [ hts_code |-> << "8", "7", "0", "8", ".", "1", "0" >>,
      desc |-> << "B", "u", "m", "p", "e", "r", "s" >>,
      generalRate |-> << "2", ".", "5", "%" >> ]

ItemBody ==
    [ htsno |-> << "8", "7", "0", "8", ".", "2", "9" >>,
      description |-> << "B", "o", "d", "y" >>,
      specialRates |-> [t |-> "dict", v |-> (<< "M", "X" >> :> << "0", "%" >>)] ]

ItemCattle ==
    [ htsno |-> << "0", "1", "0", "2", ".", "2", "1" >>,
      description |-> << "C", "a", "t", "t", "l", "e" >> ]

ItemBolt ==
    [ code |-> << "7", "3", "1", "8", ".", "1", "5" >>,
      text |-> << "B", "o", "l", "t", "s" >>,
      rate |-> << "F", "r", "e", "e" >> ]

ItemNoDescription ==
    [ htsno |-> << "9", "9", "9", "9", ".", "9", "9" >> ]

\* the two requests the gateway sends: GET {BASE_URL}/search?keyword=... and
\* GET {BASE_URL}/exportList?from=...&to=...
SearchRequest(keyword) == [endpoint |-> "search", keyword |-> keyword]
ExportRequest(from, to) == [endpoint |-> "exportList", from |-> from, to |-> to]

\* what the remote service holds for a request when it is up
Catalogue(request) ==
    CASE request = SearchRequest(Bumper) -> << ItemBumper, ItemBolt, ItemCattle >>
      [] request = SearchRequest(<< "b", "u", "m", "p", "e", "r", "s" >>) -> << ItemBumperAlt, ItemBolt >>
      [] request = SearchRequest(<< "a", " ", "b", "o", "l", "t" >>) -> << ItemCattle >>
      [] request = SearchRequest(<< "b", "o", "l", "t", "s" >>) -> << ItemBolt, ItemNoDescription >>
      [] request = ExportRequest(<< "8", "7", "0", "8" >>, << "8", "7", "0", "8", "9", "9" >>)
           -> << ItemBody, ItemBumper >>
      [] request = ExportRequest(<< "7", "3", "1", "8" >>, << "7", "3", "1", "8", "9", "9" >>)
           -> << ItemBolt >>
      [] OTHER -> << >>

\* what session.get gives: an exception (kind "conn_error" or "timeout") or a
\* response with a status and a body
NoResponse(kind) == [kind |-> kind, status |-> 0, json_ok |-> FALSE, data |-> [t |-> "list", v |-> << >>]]
HttpError(status) == [kind |-> "http", status |-> status, json_ok |-> FALSE, data |-> [t |-> "list", v |-> << >>]]
HttpOk(data) == [kind |-> "http", status |-> 200, json_ok |-> TRUE, data |-> data]

\* the states of the remote service during one analyze_product call
Worlds == { "up", "down", "search_down", "export_down" }

\* the shapes of the body of a 200 response: a bare list of items, an object
\* with a "results" list, an object with nested "data" and "items"
Shapes == { "up", "up_results", "up_items" }

\* the decoded body holding the items in the shape the remote service uses
Shaped(world, items) ==
    IF world = "up_results" THEN [t |-> "dict", v |-> [results |-> items]]
    ELSE IF world = "up_items" THEN [t |-> "dict", v |-> [data |-> [items |-> items]]]
    ELSE [t |-> "list", v |-> items]

\* the answer of the remote service to a request, by its state
RemoteAnswer(world, request) ==
    IF world = "down" THEN NoResponse("conn_error")
    ELSE IF world = "search_down" /\ request.endpoint = "search" THEN NoResponse("timeout")
    ELSE IF world = "export_down" /\ request.endpoint = "exportList" THEN HttpError(500)
    ELSE HttpOk(Shaped(world, Catalogue(request)))

(***************************************************************************)
(* USITCApiClient (utils/api_client.py)                                    *)
(***************************************************************************)

\* The answer of the remote service to one HTTP GET:
\*   kind    "conn_error" | "timeout" (session.get raises RequestException)
\*           | "http" (a response came back)
\*   status  the HTTP status code
\*   json_ok whether response.json() decodes the body
\*   data    the decoded body: [t |-> "list", v |-> items]
\*           or [t |-> "dict", v |-> a function of its keys]
\* An item is a dict of the remote service: a function of its field names.

\* the dict built at the end of _parse_result_item
CodeRecord(hts_code, description, general, special, column2, unit, info) ==
    [ hts_code |-> hts_code,
      description |-> description,
      rates |-> [general |-> general, special |-> special, column2 |-> column2],
      unit_of_quantity |-> unit,
      additional_info |-> info ]

EmptyDict == [k \in {} |-> << >>]

NA == << "N", "/", "A" >>

\* the first of `fields` that is a key of `item`, as a one-element list, or << >>
RECURSIVE FirstField(_, _)
FirstField(item, fields) ==
    IF Len(fields) = 0 THEN << >>
    ELSE IF fields[1] \in DOMAIN item THEN << item[fields[1]] >>
    ELSE FirstField(item, Tail(fields))

\* the inner loop of _parse_special_rates over one part: the first key-value
\* separator that occurs in the part splits it
RECURSIVE ParsePart(_, _, _)
ParsePart(parsed, part, kv_separators) ==
    IF Len(kv_separators) = 0 THEN parsed
    ELSE IF HasChar(part, kv_separators[1])
         THEN LET kv == Split1(part, kv_separators[1])
              IN  Put(parsed, Strip(kv[1], WhiteSpace), Strip(kv[2], WhiteSpace))
         ELSE ParsePart(parsed, part, Tail(kv_separators))

RECURSIVE ParseParts(_, _)
ParseParts(parsed, parts) ==
    IF Len(parts) = 0 THEN parsed
    ELSE ParseParts(ParsePart(parsed, parts[1], << ":", "-", "=" >>), Tail(parts))

\* the outer loop of _parse_special_rates: every item separator that occurs in
\* the string splits the whole string
RECURSIVE ParseSeparators(_, _, _)
ParseSeparators(parsed, special_rates, separators) ==
    IF Len(separators) = 0 THEN parsed
    ELSE ParseSeparators(
             IF HasChar(special_rates, separators[1])
             THEN ParseParts(parsed, Split(special_rates, separators[1]))
             ELSE parsed,
             special_rates, Tail(separators))

\* the list branch of _parse_special_rates
RECURSIVE ParseRateList(_, _)
ParseRateList(parsed, items) ==
    IF Len(items) = 0 THEN parsed
    ELSE LET country == FirstField(items[1], << "country", "agreement", "code", "name" >>)
             rate == FirstField(items[1], << "rate", "value", "duty" >>)
         IN  ParseRateList(
                 IF Len(country) = 1 /\ Len(rate) = 1
                    /\ Len(country[1]) > 0 /\ Len(rate[1]) > 0
                 THEN Put(parsed, country[1], rate[1])
                 ELSE parsed,
                 Tail(items))

\* _parse_special_rates: special_rates is [t |-> "dict" | "str" | "list" | other, v |-> value]
_parse_special_rates(special_rates) ==
    IF special_rates.t = "dict" THEN special_rates.v
    ELSE IF special_rates.t = "str"
         THEN IF Len(special_rates.v) > 0
              THEN ParseSeparators(EmptyDict, special_rates.v, << ";", ",", "|" >>)
              ELSE EmptyDict
    ELSE IF special_rates.t = "list" THEN ParseRateList(EmptyDict, special_rates.v)
    ELSE EmptyDict

\* a parse that keeps an item holding a code or a description, with the empty
\* string for the one that is missing
ParseKeepingPartial(item) ==
    LET hts_code == FirstField(item, << "htsno", "hts_code", "htsCode", "code", "number", "htsNumber" >>)
        description == FirstField(item, << "description", "desc", "text", "title", "htsDescription" >>)
    IN  IF hts_code \in { << >>, << << >> >> } /\ description \in { << >>, << << >> >> } THEN << >>
        ELSE << CodeRecord(IF Len(hts_code) = 1 THEN hts_code[1] ELSE << >>,
                           IF Len(description) = 1 THEN description[1] ELSE << >>,
                           NA, EmptyDict, NA, "", "") >>

\* _parse_result_item: << >> for None, << record >> otherwise
_parse_result_item(item) ==
    LET hts_code == FirstField(item, << "htsno", "hts_code", "htsCode", "code", "number", "htsNumber" >>)
        description == FirstField(item, << "description", "desc", "text", "title", "htsDescription" >>)
        general_rate == FirstField(item, << "general_rate_of_duty", "generalRate", "general", "rate", "generalDuty" >>)
        special_rates == FirstField(item, << "special_rate_of_duty", "specialRates", "special", "rates", "specialDuty" >>)
        column2_rate == FirstField(item, << "column_2_rate_of_duty", "column2Rate", "column2", "col2", "column2Duty" >>)
        unit_of_quantity == FirstField(item, << "unit_of_quantity", "unit", "uom", "unitOfQuantity" >>)
        additional_info == FirstField(item, << "additional_info", "notes", "info", "additional", "additionalInfo" >>)
    IN  IF Len(hts_code) = 0 \/ Len(description) = 0 THEN << >>
        ELSE IF Len(hts_code[1]) = 0 \/ Len(description[1]) = 0 THEN << >>
        ELSE << CodeRecord(
                    hts_code[1],
                    description[1],
                    IF Len(general_rate) = 1 THEN general_rate[1] ELSE NA,
                    IF Len(special_rates) = 1 THEN _parse_special_rates(special_rates[1]) ELSE EmptyDict,
                    IF Len(column2_rate) = 1 THEN column2_rate[1] ELSE NA,
                    IF Len(unit_of_quantity) = 1 THEN unit_of_quantity[1] ELSE "",
                    IF Len(additional_info) = 1 THEN additional_info[1] ELSE "") >>

\* the items of a decoded body, by the three accepted shapes; << >> otherwise
ResponseItems(data) ==
    IF data.t = "list" THEN data.v
    ELSE IF data.t = "dict" /\ "results" \in DOMAIN data.v THEN data.v["results"]
    ELSE IF data.t = "dict" /\ "data" \in DOMAIN data.v /\ "items" \in DOMAIN data.v["data"]
         THEN data.v["data"]["items"]
    ELSE << >>

RECURSIVE ParseItems(_)
ParseItems(items) ==
    IF Len(items) = 0 THEN << >>
    ELSE _parse_result_item(items[1]) \o ParseItems(Tail(items))

\* _parse_search_results
_parse_search_results(data) == ParseItems(ResponseItems(data))

\* _parse_export_results: the parsed items whose code contains the query or
\* whose description contains it case-folded
_parse_export_results(data, query) ==
    SelectSeq(ParseItems(ResponseItems(data)),
              LAMBDA result : Contains(result.hts_code, query)
                              \/ Contains(Lower(result.description), Lower(query)))

\* What a lookup gives back: raised (an exception left the function) or a list.
Raised == [raised |-> TRUE, value |-> << >>]
Returned(v) == [raised |-> FALSE, value |-> v]

\* print(f"API response: {data[:200]}...") slices the decoded body: a list can
\* be sliced, a dict cannot (TypeError or KeyError, not a JSONDecodeError)
CanSlice(data) == data.t \in {"list", "str"}

\* the request of _search_by_description, for
\* description.replace('-', ' ').rstrip(':;,.')
SearchUrl(description) ==
    SearchRequest(RStrip(List([i \in 1..Len(description) |->
                                  IF description[i] = "-" THEN " " ELSE description[i]]),
                         {":", ";", ",", "."}))

\* hts_code.strip().rstrip(':;,.')
CleanedCode(hts_code) == RStrip(Strip(hts_code, WhiteSpace), {":", ";", ",", "."})

\* s[:n]
Prefix(s, n) == SubSeq(s, 1, IF Len(s) < n THEN Len(s) ELSE n)

\* the request of _search_by_hts_code
ExportUrl(hts_code) ==
    ExportRequest(Prefix(CleanedCode(hts_code), 4),
                  Prefix(CleanedCode(hts_code), 4) \o << "9", "9" >>)

\* _search_by_description from the response of session.get on
DescriptionResponse(resp) ==
    IF resp.kind # "http" THEN Raised
    ELSE IF resp.status = 200
         THEN IF ~resp.json_ok THEN Returned(<< >>)
              ELSE IF ~CanSlice(resp.data) THEN Raised
              ELSE Returned(_parse_search_results(resp.data))
         ELSE Returned(<< >>)

\* _search_by_description
_search_by_description(description, remote) ==
    DescriptionResponse(RemoteAnswer(remote, SearchUrl(description)))

\* _search_by_hts_code from the response of session.get on
CodeResponse(hts_code, resp) ==
    IF resp.kind # "http" THEN Raised
    ELSE IF resp.status = 200
         THEN IF ~resp.json_ok THEN Returned(<< >>)
              ELSE IF ~CanSlice(resp.data) THEN Raised
              ELSE Returned(_parse_export_results(resp.data, hts_code))
         ELSE Returned(<< >>)

\* _search_by_hts_code
_search_by_hts_code(hts_code, remote) ==
    CodeResponse(CleanedCode(hts_code), RemoteAnswer(remote, ExportUrl(hts_code)))

\* re.match(r'^\d{4}(\.\d{2})?', query): four leading digits
LooksLikeCode(query) == Len(query) >= 4 /\ IsDigit(SubSeq(query, 1, 4))

\* re.search(r'\d{4}(\.\d{2})?', query): four consecutive digits anywhere
HasCodeInside(query) ==
    \E i \in 1..(Len(query) - 3) : IsDigit(SubSeq(query, i, i + 3))

\* except Exception: return []
OrEmpty(got) == IF got.raised THEN << >> ELSE got.value

\* _search_usitc_api: every exception becomes the empty list
_search_usitc_api(query, remote) ==
    OrEmpty(IF LooksLikeCode(query)
            THEN _search_by_hts_code(query, remote)
            ELSE _search_by_description(query, remote))

\* _get_fallback_results
_get_fallback_results(query) ==
    IF HasCodeInside(query)
    THEN << CodeRecord(
                Lower(Strip(query, WhiteSpace)),
                << "H", "T", "S", " ", "c", "o", "d", "e", " ", "i", "n", "f", "o", "r", "m", "a", "t", "i", "o", "n", " ", "n", "o", "t", " ", "a", "v", "a", "i", "l", "a", "b", "l", "e" >>,
                NA, EmptyDict, NA, "",
                "Please verify this HTS code with official sources") >>
    ELSE << CodeRecord(
                << "0", "0", "0", "0", ".", "0", "0", ".", "0", "0", "0", "0" >>,
                << "N", "o", " ", "m", "a", "t", "c", "h", "i", "n", "g", " ", "H", "T", "S", " ", "c", "o", "d", "e", " ", "f", "o", "u", "n", "d" >>,
                NA, EmptyDict, NA, "",
                "Please try a different search term or consult with a customs expert") >>

\* the ids of n objects allocated after those of heap
NewIds(heap, n) == List([i \in 1..n |-> Len(heap) + i])

\* the end of search: the list is allocated, cached and returned
CacheAndReturn(client, heap, query, dicts, fell_back) ==
    [ results |-> NewIds(heap, Len(dicts)),
      client |-> IF client.cache_enabled
                 THEN [client EXCEPT !.cache = Put(client.cache, query, NewIds(heap, Len(dicts)))]
                 ELSE client,
      heap |-> heap \o dicts,
      contacted |-> TRUE,
      fell_back |-> fell_back ]

\* search after a cache miss without the fallback: what was found is cached
\* and returned, even when it is empty
OrNothing(client, heap, query, found) ==
    CacheAndReturn(client, heap, query, found, FALSE)

\* search after a cache miss: `found` is what _search_usitc_api returned
OrFallback(client, heap, query, found) ==
    CacheAndReturn(client, heap, query,
                   IF Len(found) = 0 THEN _get_fallback_results(query) ELSE found,
                   Len(found) = 0)

\* search with the cache keyed by the case-folded query
SearchFoldingCase(client, heap, query, remote) ==
    IF client.cache_enabled /\ Lower(query) \in DOMAIN client.cache
    THEN [ results |-> client.cache[Lower(query)], client |-> client, heap |-> heap,
           contacted |-> FALSE, fell_back |-> FALSE ]
    ELSE OrFallback(client, heap, Lower(query), _search_usitc_api(query, remote))

\* search: client is [cache_enabled, cache], heap the objects so far, remote
\* the state of the remote service.  Gives the list returned (ids),
\* the client and heap afterwards, and whether the remote service was asked
\* and whether the fallback was used.
search(client, heap, query, remote) ==
    IF client.cache_enabled /\ query \in DOMAIN client.cache
    THEN [ results |-> client.cache[query], client |-> client, heap |-> heap,
           contacted |-> FALSE, fell_back |-> FALSE ]
    ELSE OrFallback(client, heap, query, _search_usitc_api(query, remote))

\* get_hts_details, the export part: the record of the response whose code
\* is hts_code, else the first record; << >> when the request fails, the body
\* does not decode, cannot be sliced or holds no matching record
ExportDetails(hts_code, resp) ==
    IF resp.kind = "http" /\ resp.status = 200 /\ resp.json_ok /\ CanSlice(resp.data)
    THEN Prefix(SelectSeq(_parse_export_results(resp.data, hts_code),
                          LAMBDA result : result.hts_code = hts_code)
                \o _parse_export_results(resp.data, hts_code), 1)
    ELSE << >>

\* get_hts_details, the search part: the record of search(hts_code) whose code
\* is hts_code, else the fallback record
SearchDetails(hts_code, searched) ==
    [ details |-> Prefix(SelectSeq(List([i \in 1..Len(searched.results) |->
                                            searched.heap[searched.results[i]]]),
                                   LAMBDA result : result.hts_code = hts_code)
                         \o _get_fallback_results(hts_code), 1),
      client |-> searched.client,
      heap |-> searched.heap ]

\* get_hts_details once the export part gave `found`
DetailsFrom(client, heap, hts_code, remote, found) ==
    IF Len(found) > 0
    THEN [ details |-> found, client |-> client, heap |-> heap ]
    ELSE SearchDetails(hts_code, search(client, heap, hts_code, remote))

\* get_hts_details: details is << record >>, or << >> for None
get_hts_details(client, heap, hts_code, remote) ==
    DetailsFrom(client, heap, hts_code, remote,
                ExportDetails(hts_code,
                              RemoteAnswer(remote,
                                           ExportRequest(Prefix(hts_code, 4),
                                                         Prefix(hts_code, 4) \o << "9", "9" >>))))

\* special_rates.get(k1, special_rates.get(k2, ... "Free")) for keys k1, k2, ...
RECURSIVE FirstRate(_, _)
FirstRate(special_rates, keys) ==
    IF Len(keys) = 0 THEN << "F", "r", "e", "e" >>
    ELSE IF keys[1] \in DOMAIN special_rates THEN special_rates[keys[1]]
    ELSE FirstRate(special_rates, Tail(keys))

\* the entry of one agreement: origin is one of its countries and some key of
\* the agreement is among the special rates
Agreement(name, origin, origins, special_rates, keys, requirements) ==
    IF origin \in origins /\ \E i \in 1..Len(keys) : keys[i] \in DOMAIN special_rates
    THEN << [ agreement |-> name, rate |-> FirstRate(special_rates, keys),
              requirements |-> requirements ] >>
    ELSE << >>

\* eligible_agreements of get_trade_agreement_eligibility
EligibleAgreements(origin, special_rates) ==
    Agreement("USMCA", origin, { << "C", "A" >>, << "M", "X" >> }, special_rates,
              << << "C", "A" >>, << "M", "X" >>, << "U", "S", "M", "C", "A" >> >>,
              "Must meet USMCA rules of origin")
    \o Agreement("US-KR FTA", origin, { << "K", "R" >> }, special_rates,
                 << << "K", "R" >>, << "U", "S", "-", "K", "R" >> >>,
                 "Must meet US-Korea FTA rules of origin")
    \o Agreement("US-Japan Trade Agreement", origin, { << "J", "P" >> }, special_rates,
                 << << "J", "P" >>, << "U", "S", "-", "J", "P" >> >>,
                 "Must meet US-Japan Trade Agreement rules of origin")

\* get_trade_agreement_eligibility once the details were looked up
Eligibility(origin, got) ==
    [ value |-> IF Len(got.details) = 0
                THEN [ eligible_agreements |-> << >>, details |-> "HTS code not found" ]
                ELSE [ eligible_agreements |->
                           EligibleAgreements(origin,
                                              Get(Get(got.details[1], "rates", EmptyDict),
                                                  "special", EmptyDict)),
                       details |-> "Based on country of origin and special rates" ],
      hts_details |-> got.details,
      client |-> got.client,
      heap |-> got.heap ]

\* get_trade_agreement_eligibility
get_trade_agreement_eligibility(client, heap, hts_code, origin, destination, remote) ==
    IF destination # << "U", "S" >>
    THEN [ value |-> [ eligible_agreements |-> << >>,
                       details |-> "Only US destination supported in this POC" ],
           hts_details |-> << >>, client |-> client, heap |-> heap ]
    ELSE Eligibility(origin, get_hts_details(client, heap, hts_code, remote))

(***************************************************************************)
(* LLMService (utils/llm_service.py)                                       *)
(*                                                                         *)
(* llm is [enabled, cache_enabled, supports_json_format, cache]: enabled   *)
(* says that a service object exists and has an API key, and               *)
(* supports_json_format that self.model is one of the JSON-mode models.    *)
(* A reply of the backend is [kind |-> "error"] when                       *)
(* openai.ChatCompletion.create raises, and otherwise                      *)
(* [kind |-> "ok", content |-> the message text] or, in JSON mode,         *)
(* [kind |-> "ok", json |-> << the decoded dict >>] with << >> for a       *)
(* payload json.loads rejects.                                             *)
(***************************************************************************)

\* the section a header line opens, "" when the line is no header
HeaderOf(line) ==
    LET up == Upper(line)
    IN  IF Contains(up, << "M", "A", "T", "E", "R", "I", "A", "L", "S", ":" >>)
           \/ Contains(line, << "1", ".", " ", "M", "A", "T", "E", "R", "I", "A", "L", "S" >>)
        THEN "MATERIALS"
        ELSE IF Contains(up, << "F", "U", "N", "C", "T", "I", "O", "N", ":" >>)
                \/ Contains(line, << "2", ".", " ", "F", "U", "N", "C", "T", "I", "O", "N" >>)
        THEN "FUNCTION"
        ELSE IF Contains(up, << "I", "N", "D", "U", "S", "T", "R", "Y" >>)
        THEN "INDUSTRY_TERMS"
        ELSE IF Contains(up, << "H", "T", "S", "_", "T", "E", "R", "M", "I", "N", "O", "L", "O", "G", "Y" >>)
        THEN "HTS_TERMINOLOGY"
        ELSE IF Contains(up, << "H", "T", "S", "_", "C", "O", "D", "E", "S" >>)
        THEN "HTS_CODES"
        ELSE IF Contains(up, << "S", "E", "A", "R", "C", "H" >>)
        THEN "SEARCH_TERMS"
        ELSE ""

\* str(current_section)
SectionName(section) ==
    CASE section = "MATERIALS" -> << "M", "A", "T", "E", "R", "I", "A", "L", "S" >>
      [] section = "FUNCTION" -> << "F", "U", "N", "C", "T", "I", "O", "N" >>
      [] section = "INDUSTRY_TERMS" -> << "I", "N", "D", "U", "S", "T", "R", "Y", "_", "T", "E", "R", "M", "S" >>
      [] section = "HTS_TERMINOLOGY" -> << "H", "T", "S", "_", "T", "E", "R", "M", "I", "N", "O", "L", "O", "G", "Y" >>
      [] section = "HTS_CODES" -> << "H", "T", "S", "_", "C", "O", "D", "E", "S" >>
      [] section = "SEARCH_TERMS" -> << "S", "E", "A", "R", "C", "H", "_", "T", "E", "R", "M", "S" >>

\* [t.strip() for t in line.split(",")]
StripAll(parts) == List([i \in 1..Len(parts) |-> Strip(parts[i], WhiteSpace)])

\* the items one content line adds to a list section
LineItems(section, line) ==
    IF StartsWith(line, << "-", " " >>) \/ StartsWith(line, << "*", " " >>)
    THEN << SubSeq(line, 3, Len(line)) >>
    ELSE IF section = "SEARCH_TERMS" /\ StartsWith(line, << "\"" >>) /\ EndsWith(line, << "\"" >>)
    THEN << Strip(line, {"\""}) >>
    ELSE IF HasChar(line, ",") THEN StripAll(Split(line, ","))
    ELSE << line >>

\* the text a header line keeps: what follows its first colon, stripped
AfterColon(line) ==
    IF HasChar(line, ":") THEN Strip(Split1(line, ":")[2], WhiteSpace) ELSE << >>

\* the second half of the loop body: the content of `line` goes to `section`
ProcessContent(st, section, line) ==
    IF section # "" /\ Len(line) > 0 /\ ~StartsWith(line, SectionName(section))
    THEN [ current_section |-> section,
           result |->
               IF section \in {"FUNCTION", "HTS_TERMINOLOGY"}
               THEN [st.result EXCEPT ![section] = @ \o line \o << " " >>]
               ELSE [st.result EXCEPT ![section] = @ \o LineItems(section, line)] ]
    ELSE [st EXCEPT !.current_section = section]

\* the first half of the loop body: the header test on a non-empty line
ProcessLine(st, line, header) ==
    IF header # "" THEN ProcessContent(st, header, AfterColon(line))
    ELSE ProcessContent(st, st.current_section, line)

\* the `if not line: continue` of the loop
SkipEmpty(st, line) ==
    IF Len(line) = 0 THEN st ELSE ProcessLine(st, line, HeaderOf(line))

\* one iteration of the loop over lines: st is [result, current_section]
ParseLine(st, raw) == SkipEmpty(st, Strip(raw, WhiteSpace))

RECURSIVE ParseLines(_, _)
ParseLines(st, lines) ==
    IF Len(lines) = 0 THEN st
    ELSE ParseLines(ParseLine(st, lines[1]), Tail(lines))

\* the clean-up after the loop, and the default for SEARCH_TERMS
CleanUp(result, product_description) ==
    [result EXCEPT !.FUNCTION = Strip(@, WhiteSpace),
                   !.HTS_TERMINOLOGY = Strip(@, WhiteSpace),
                   !.SEARCH_TERMS = IF Len(@) = 0 THEN << product_description >> ELSE @]

\* _parse_structured_response
_parse_structured_response(content, product_description) ==
    CleanUp(ParseLines([ current_section |-> "",
                         result |-> [ MATERIALS |-> << >>, FUNCTION |-> << >>,
                                      INDUSTRY_TERMS |-> << >>, HTS_TERMINOLOGY |-> << >>,
                                      HTS_CODES |-> << >>, SEARCH_TERMS |-> << >> ] ],
                       Split(content, "\n")).result,
            product_description)

\* code.split(' ', 1)[0].strip().rstrip(':;,.')
CleanCode(code) == RStrip(Strip(Split1(code, " ")[1], WhiteSpace), {":", ";", ",", "."})

\* one iteration of the loop over hts_codes
AddCode(search_terms, clean_code) ==
    IF (\E i \in 1..Len(clean_code) : clean_code[i] \in Digits)
       /\ HasChar(clean_code, ".")
       /\ ~InList(search_terms, clean_code)
    THEN Append(search_terms, clean_code)
    ELSE search_terms

\* the loop that adds the cleaned HTS codes to the search terms
RECURSIVE AddCodes(_, _)
AddCodes(search_terms, hts_codes) ==
    IF Len(hts_codes) = 0 THEN search_terms
    ELSE AddCodes(AddCode(search_terms, CleanCode(hts_codes[1])), Tail(hts_codes))

\* AppendNew with the append left out
AppendNever(xs, x) == xs

\* if x not in xs: xs.append(x)
AppendNew(xs, x) == IF InList(xs, x) THEN xs ELSE Append(xs, x)

EnhanceKey(product_description) ==
    << "e", "n", "h", "a", "n", "c", "e", "_" >> \o product_description

AnalysisKey(product_description) ==
    << "a", "n", "a", "l", "y", "s", "i", "s", "_" >> \o product_description

\* is_enabled
is_enabled(llm) == llm.enabled

\* the search terms enhance_search_query builds from the decoded reply
EnhancedTerms(result, product_description) ==
    AddCodes(AppendNew(IF Len(Get(result, "SEARCH_TERMS", << >>)) = 0
                       THEN << product_description >>
                       ELSE result["SEARCH_TERMS"],
                       product_description),
             Get(result, "HTS_CODES", << >>))

\* the two cache writes at the end of enhance_search_query.  The list built
\* is result["SEARCH_TERMS"] itself when that list was not empty, so what was
\* appended to it shows in the analysis that is stored.
StoreAnalysis(llm, product_description, result, search_terms) ==
    Put(IF llm.cache_enabled
        THEN Put(llm.cache, EnhanceKey(product_description), search_terms)
        ELSE llm.cache,
        AnalysisKey(product_description),
        IF Len(Get(result, "SEARCH_TERMS", << >>)) = 0 THEN result
        ELSE Put(result, "SEARCH_TERMS", search_terms))

\* the end of enhance_search_query: the cache writes and the return
StoreAndReturn(llm, product_description, result, search_terms) ==
    [ terms |-> search_terms,
      llm |-> [llm EXCEPT !.cache = StoreAnalysis(llm, product_description, result, search_terms)] ]

\* enhance_search_query from the decoded reply on
UseReply(llm, product_description, result) ==
    StoreAndReturn(llm, product_description, result,
                   EnhancedTerms(result, product_description))

\* the decoded reply: json.loads in JSON mode, the text parser otherwise
Decoded(llm, product_description, reply) ==
    IF llm.supports_json_format THEN reply.json[1]
    ELSE _parse_structured_response(Strip(reply.content, WhiteSpace), product_description)

\* enhance_search_query returning the empty list when the backend fails
EnhanceOrNothing(llm, product_description, reply) ==
    IF ~is_enabled(llm) THEN [terms |-> << product_description >>, llm |-> llm]
    ELSE IF llm.cache_enabled /\ EnhanceKey(product_description) \in DOMAIN llm.cache
    THEN [terms |-> llm.cache[EnhanceKey(product_description)], llm |-> llm]
    ELSE IF reply.kind = "error" \/ (llm.supports_json_format /\ Len(reply.json) = 0)
    THEN [terms |-> << >>, llm |-> llm]
    ELSE UseReply(llm, product_description, Decoded(llm, product_description, reply))

\* enhance_search_query: the list returned and the service afterwards
enhance_search_query(llm, product_description, reply) ==
    IF ~is_enabled(llm) THEN [terms |-> << product_description >>, llm |-> llm]
    ELSE IF llm.cache_enabled /\ EnhanceKey(product_description) \in DOMAIN llm.cache
    THEN [terms |-> llm.cache[EnhanceKey(product_description)], llm |-> llm]
    ELSE IF reply.kind = "error" THEN [terms |-> << product_description >>, llm |-> llm]
    ELSE IF llm.supports_json_format /\ Len(reply.json) = 0
    THEN [terms |-> << product_description >>, llm |-> llm]
    ELSE UseReply(llm, product_description, Decoded(llm, product_description, reply))

\* the level found in the text after the colon, case-folded
ConfidenceLevel(folded) ==
    IF Contains(folded, << "h", "i", "g", "h" >>) THEN "High"
    ELSE IF Contains(folded, << "m", "e", "d", "i", "u", "m" >>) THEN "Medium"
    ELSE IF Contains(folded, << "l", "o", "w" >>) THEN "Low"
    ELSE "Medium"

\* int(index_part.split('.')[0]) - 1, and the level and reason of the line
NumberedUpdate(number, confidence_part) ==
    IF ~IsDigit(number) THEN << >>
    ELSE << [ index |-> ToInt(number) - 1,
              confidence |-> ConfidenceLevel(Lower(confidence_part)),
              confidence_reason |-> confidence_part ] >>

\* the body of the try for one line, from its two stripped parts
LineUpdate(index_part, confidence_part) ==
    IF Len(index_part) = 0 THEN << >>
    ELSE IF index_part[1] \notin Digits THEN << >>
    ELSE NumberedUpdate(Strip(Split(index_part, ".")[1], WhiteSpace), confidence_part)

\* the two parts of line.split(':', 1), stripped
SplitUpdate(parts) == LineUpdate(Strip(parts[1], WhiteSpace), Strip(parts[2], WhiteSpace))

\* one line of the confidence reply: << >> when the line is skipped, else the
\* update << [index, confidence, confidence_reason] >> it asks for
ParseConfidenceLine(line) ==
    IF ~HasChar(line, ":") THEN << >> ELSE SplitUpdate(Split1(line, ":"))

\* the write of one line's update into the object it indexes
ApplyUpdate(heap, hts_results, u) ==
    IF Len(u) = 1 /\ 0 <= u[1].index /\ u[1].index < Len(hts_results)
    THEN [heap EXCEPT ![hts_results[u[1].index + 1]] =
             Put(Put(@, "confidence", u[1].confidence),
                 "confidence_reason", u[1].confidence_reason)]
    ELSE heap

\* the loop over the reply's lines, writing into the objects of hts_results
RECURSIVE ApplyConfidenceLines(_, _, _)
ApplyConfidenceLines(heap, hts_results, lines) ==
    IF Len(lines) = 0 THEN heap
    ELSE ApplyConfidenceLines(ApplyUpdate(heap, hts_results, ParseConfidenceLine(lines[1])),
                              hts_results, Tail(lines))

\* result["confidence"] = "Medium" for every result of the list
AllMedium(heap, hts_results) ==
    List([id \in 1..Len(heap) |->
        IF InList(hts_results, id) THEN Put(heap[id], "confidence", "Medium") ELSE heap[id]])

\* the default for every result of the list that has no "confidence" key
DefaultConfidence(heap, hts_results) ==
    List([id \in 1..Len(heap) |->
        IF InList(hts_results, id) /\ "confidence" \notin DOMAIN heap[id]
        THEN Put(Put(heap[id], "confidence", "Medium"),
                 "confidence_reason",
                 << "D", "e", "f", "a", "u", "l", "t", " ", "a", "s", "s", "e", "s", "s", "m", "e", "n", "t" >>)
        ELSE heap[id]])

\* analyze_hs_code_confidence: the heap afterwards (the list returned is
\* hts_results itself)
analyze_hs_code_confidence(llm, product_description, hts_results, heap, reply) ==
    IF ~is_enabled(llm) \/ Len(hts_results) = 0 THEN AllMedium(heap, hts_results)
    ELSE IF reply.kind = "error" THEN AllMedium(heap, hts_results)
    ELSE DefaultConfidence(
             ApplyConfidenceLines(heap, hts_results,
                                  Split(Strip(reply.content, WhiteSpace), "\n")),
             hts_results)

(***************************************************************************)
(* The environment: the remote tariff service and the generative backend   *)
(***************************************************************************)

Descriptions == { Bumper, ABolt }

\* (origin, destination) pairs a user selects
Lanes == { << << "M", "X" >>, << "U", "S" >> >> }

\* what the backend says when asked to expand a description: the call raises
\* (timeout, authentication), the reply holds the sections asked for, or the
\* reply is text in no format
EnhanceKinds == { "error", "full", "malformed" }

EnhanceText(product_description) ==
    IF product_description = Bumper
    THEN << "M", "A", "T", "E", "R", "I", "A", "L", "S", ":", " ", "s", "t", "e", "e", "l", "\n" >>
         \o << "H", "T", "S", "_", "C", "O", "D", "E", "S", ":", " ", "8", "7", "0", "8", ".", "1", "0", " ", "(", "b", "u", "m", "p", "e", "r", "s", ")", "\n" >>
         \o << "S", "E", "A", "R", "C", "H", "_", "T", "E", "R", "M", "S", ":", " ", "b", "u", "m", "p", "e", "r", "s" >>
    ELSE << "H", "T", "S", "_", "C", "O", "D", "E", "S", ":", " ", "7", "3", "1", "8", ".", "1", "5", "\n" >>
         \o << "S", "E", "A", "R", "C", "H", "_", "T", "E", "R", "M", "S", ":", " ", "b", "o", "l", "t", "s", ",", " " >>
         \o product_description

EnhanceJson(product_description) ==
    IF product_description = Bumper
    THEN [ MATERIALS |-> << << "s", "t", "e", "e", "l" >> >>,
           HTS_CODES |-> << << "8", "7", "0", "8", ".", "1", "0" >> >>,
           SEARCH_TERMS |-> << << "b", "u", "m", "p", "e", "r", "s" >> >> ]
    ELSE [ HTS_CODES |-> << << "7", "3", "1", "8", ".", "1", "5" >> >> ]

\* json is << the decoded object >>, or << >> when json.loads raises
EnhanceReply(llm, kind, product_description) ==
    IF kind = "error" THEN [kind |-> "error"]
    ELSE IF kind = "malformed"
    THEN [kind |-> "ok", json |-> << >>, content |-> << "n", "o", " ", "i", "d", "e", "a" >>]
    ELSE IF llm.supports_json_format
    THEN [kind |-> "ok", json |-> << EnhanceJson(product_description) >>]
    ELSE [kind |-> "ok", content |-> EnhanceText(product_description)]

\* what the backend says when asked to rate the candidates
ConfidenceKinds == { "error", "lines", "unclear" }

ConfidenceReply(kind) ==
    IF kind = "error" THEN [kind |-> "error"]
    ELSE IF kind = "lines"
    THEN [ kind |-> "ok",
           content |-> << "1", ".", " ", "L", "o", "w", ":", " ", "l", "o", "w", " ", "f", "i", "t", "\n" >>
                       \o << "2", ".", " ", "H", "i", "g", "h", ":", " ", "h", "i", "g", "h", "l", "y", " ", "a", "p", "t" >> ]
    ELSE [kind |-> "ok", content |-> << "u", "n", "c", "l", "e", "a", "r" >>]

(***************************************************************************)
(* ProductAnalyzer (utils/product_analyzer.py)                             *)
(***************************************************************************)

\* _get_search_terms: the list returned and the service afterwards
_get_search_terms(llm, product_description, reply) ==
    IF is_enabled(llm)
    THEN [enhance_search_query(llm, product_description, reply)
            EXCEPT !.terms = AppendNew(@, product_description)]
    ELSE [terms |-> << product_description >>, llm |-> llm]

\* the tagging loop over the results of one search
TagResults(heap, results, term) ==
    List([id \in 1..Len(heap) |->
        IF InList(results, id)
        THEN Put(heap[id], "search_terms",
                 Get(heap[id], "search_terms", << >>)
                 \o [i \in 1..Cardinality({j \in 1..Len(results) : results[j] = id}) |-> term])
        ELSE heap[id]])

\* one iteration of the loop over the search terms, after the search: acc is
\* [client, heap, all_results, log]; log keeps, per term, what its search did
Collect(acc, term, got) ==
    [ client |-> got.client,
      heap |-> TagResults(got.heap, got.results, term),
      all_results |-> acc.all_results \o got.results,
      log |-> Append(acc.log, [ term |-> term, results |-> got.results,
                                contacted |-> got.contacted,
                                fell_back |-> got.fell_back ]) ]

\* the loop over the search terms (step 2 of analyze_product); the remote
\* service answers the search of each term as its state `remote` says
RECURSIVE SearchAll(_, _, _)
SearchAll(acc, search_terms, remote) ==
    IF Len(search_terms) = 0 THEN acc
    ELSE SearchAll(Collect(acc, search_terms[1],
                           search(acc.client, acc.heap, search_terms[1], remote)),
                   Tail(search_terms), remote)

\* result.get("hts_code", "")
CodeOf(result) == Get(result, "hts_code", << >>)

\* the values of the dict unique_results after the loop over `results`, in
\* insertion order: a result enters under its code when the code is not
\* empty and not yet a key
RECURSIVE UniqueValues(_, _)
UniqueValues(heap, results) ==
    IF Len(results) = 0 THEN << >>
    ELSE IF Len(CodeOf(heap[results[Len(results)]])) > 0
            /\ \A i \in 1..(Len(results) - 1) :
                   CodeOf(heap[results[i]]) # CodeOf(heap[results[Len(results)]])
         THEN Append(UniqueValues(heap, SubSeq(results, 1, Len(results) - 1)),
                     results[Len(results)])
         ELSE UniqueValues(heap, SubSeq(results, 1, Len(results) - 1))

\* _deduplicate_results that puts each new code at the front of its list
FrontInserted(heap, results) ==
    List([i \in 1..Len(UniqueValues(heap, results)) |->
        UniqueValues(heap, results)[Len(UniqueValues(heap, results)) + 1 - i]])

\* _deduplicate_results: the first result of each non-empty code, in order
_deduplicate_results(heap, results) == UniqueValues(heap, results)

\* the stopwords of _filter_results_for_relevance
common_words ==
    { << "a" >>, << "a", "n" >>, << "t", "h", "e" >>, << "a", "n", "d" >>, << "o", "r" >>,
      << "f", "o", "r" >>, << "w", "i", "t", "h" >>, << "w", "i", "t", "h", "o", "u", "t" >>,
      << "o", "f" >>, << "i", "n" >>, << "o", "n" >>, << "a", "t" >>, << "t", "o" >>,
      << "f", "r", "o", "m" >>, << "b", "y" >>, << "a", "s" >>, << "i", "s" >>,
      << "a", "r", "e" >>, << "w", "a", "s" >>, << "w", "e", "r", "e" >>, << "b", "e" >>,
      << "b", "e", "e", "n" >>, << "b", "e", "i", "n", "g" >> }

\* the set product_words of _filter_results_for_relevance
ProductWords(product_description) ==
    LET words == SplitWords(Lower(product_description))
        stripped == { Strip(words[i], {",", ".", ";", ":", "(", ")", "[", "]", "{", "}", "\"", "'"})
                      : i \in 1..Len(words) }
    IN  { w \in stripped : Len(w) > 0 /\ w \notin common_words /\ Len(w) > 1 }

\* term points without the break: any term found in the description that is a
\* code found in the result's code earns the 5 points
TermPointsOfAnyTerm(terms_lower, description, hts_code) ==
    IF \E i \in 1..Len(terms_lower) : Contains(description, terms_lower[i])
    THEN 3 + (IF \E i \in 1..Len(terms_lower) :
                     /\ Contains(description, terms_lower[i])
                     /\ IsDigit(Remove(terms_lower[i], "."))
                     /\ Contains(hts_code, terms_lower[i])
              THEN 5 ELSE 0)
    ELSE 0

\* the points of the loop over search_terms_lower: the first term found in the
\* description decides, and the loop stops there
RECURSIVE TermPoints(_, _, _)
TermPoints(terms_lower, description, hts_code) ==
    IF Len(terms_lower) = 0 THEN 0
    ELSE IF Contains(description, terms_lower[1])
         THEN 3 + (IF IsDigit(Remove(terms_lower[1], "."))
                      /\ Contains(hts_code, terms_lower[1])
                   THEN 5 ELSE 0)
         ELSE TermPoints(Tail(terms_lower), description, hts_code)

\* the bonus of the if/elif chain on product categories
CategoryBonus(product_description_lower, description, hts_code) ==
    IF Contains(product_description_lower, << "b", "u", "m", "p", "e", "r" >>)
       /\ (Contains(description, << "b", "u", "m", "p", "e", "r" >>)
           \/ Contains(hts_code, << "8", "7", "0", "8", ".", "1", "0" >>))
    THEN 5
    ELSE IF Contains(product_description_lower, << "f", "a", "s", "t", "e", "n", "e", "r" >>)
            /\ (Contains(description, << "f", "a", "s", "t", "e", "n", "e", "r" >>)
                \/ Contains(description, << "s", "c", "r", "e", "w" >>)
                \/ Contains(description, << "b", "o", "l", "t" >>))
    THEN 4
    ELSE IF Contains(product_description_lower, << "p", "l", "a", "s", "t", "i", "c" >>)
            /\ Contains(description, << "p", "l", "a", "s", "t", "i", "c" >>)
    THEN 3
    ELSE 0

\* the points for a tag of the result equal to the description, case-folded
TagPoints(tags, product_description_lower) ==
    IF \E i \in 1..Len(tags) : Lower(tags[i]) = product_description_lower THEN 2 ELSE 0

\* the sum of the four parts of the score, from the case-folded fields
ScoreOf(description, hts_code, tags, product_description_lower, search_terms_lower, product_words) ==
    TermPoints(search_terms_lower, description, hts_code)
    + Cardinality({ w \in product_words : Contains(description, w) })
    + TagPoints(tags, product_description_lower)
    + CategoryBonus(product_description_lower, description, hts_code)

\* the relevance score the filter computes for one result dict
RelevanceScore(result, product_description, search_terms) ==
    ScoreOf(Lower(Get(result, "description", << >>)),
            Lower(Get(result, "hts_code", << >>)),
            Get(result, "search_terms", << >>),
            Lower(product_description),
            List([i \in 1..Len(search_terms) |-> Lower(search_terms[i])]),
            ProductWords(product_description))

\* whether the filter keeps a result with this score: its code does not
\* start with "0102" (livestock) and the score is at least 1
Relevant(result, score) ==
    /\ ~StartsWith(Lower(Get(result, "hts_code", << >>)), << "0", "1", "0", "2" >>)
    /\ score >= 1

\* the score of each result of the list, in order
Scores(heap, results, product_description, search_terms) ==
    List([i \in 1..Len(results) |->
        RelevanceScore(heap[results[i]], product_description, search_terms)])

\* the positions of the list the filter keeps
KeptPositions(heap, results, scores) ==
    { i \in 1..Len(results) : Relevant(heap[results[i]], scores[i]) }

\* the results at the positions kept, in order
RECURSIVE KeptResults(_, _, _)
KeptResults(results, kept, i) ==
    IF i > Len(results) THEN << >>
    ELSE (IF i \in kept THEN << results[i] >> ELSE << >>) \o KeptResults(results, kept, i + 1)

\* result["relevance_score"] = relevance_score for the results kept
WriteScores(heap, results, scores, kept) ==
    List([id \in 1..Len(heap) |->
        IF \E i \in kept : results[i] = id
        THEN Put(heap[id], "relevance_score", scores[CHOOSE i \in kept : results[i] = id])
        ELSE heap[id]])

\* FilterReturn without the bypass: what passed is returned even when nothing did
FilterReturnFiltered(heap, results, filtered_results) ==
    [ results |-> filtered_results, heap |-> heap ]

\* the end of the filter: the original list when nothing passed
FilterReturn(heap, results, filtered_results) ==
    [ results |-> IF Len(filtered_results) = 0 THEN results ELSE filtered_results,
      heap |-> heap ]

\* the filter loop, from the scores of the results
FilterLoop(heap, results, scores, kept) ==
    FilterReturn(WriteScores(heap, results, scores, kept), results,
                 KeptResults(results, kept, 1))

\* the filter, from the scores of the results
FilterScored(heap, results, scores) ==
    FilterLoop(heap, results, scores, KeptPositions(heap, results, scores))

\* _filter_results_for_relevance: the list returned and the heap afterwards
_filter_results_for_relevance(heap, results, product_description, search_terms) ==
    IF Len(results) = 0 THEN [results |-> << >>, heap |-> heap]
    ELSE FilterScored(heap, results, Scores(heap, results, product_description, search_terms))

\* confidence_map.get(x.get("confidence", "Medium"), 0)
ConfidenceRank(result) ==
    LET c == Get(result, "confidence", "Medium")
    IN  IF c = "High" THEN 3 ELSE IF c = "Medium" THEN 2 ELSE IF c = "Low" THEN 1 ELSE 0

\* SortKey with the confidence rank not negated
SortKeyAscendingConfidence(result, has_confidence, has_relevance) ==
    << IF has_relevance THEN 0 - Get(result, "relevance_score", 0) ELSE 0,
       IF has_confidence THEN ConfidenceRank(result) ELSE 0,
       Get(result, "hts_code", << >>) >>

\* the sort key of _sort_results for the branch taken
SortKey(result, has_confidence, has_relevance) ==
    << IF has_relevance THEN 0 - Get(result, "relevance_score", 0) ELSE 0,
       IF has_confidence THEN 0 - ConfidenceRank(result) ELSE 0,
       Get(result, "hts_code", << >>) >>

\* k1 < k2 for two sort keys (tuple comparison)
KeyLess(k1, k2) ==
    \/ k1[1] < k2[1]
    \/ k1[1] = k2[1] /\ k1[2] < k2[2]
    \/ k1[1] = k2[1] /\ k1[2] = k2[2] /\ StrLess(k1[3], k2[3])

\* sorted(): stable, an element goes after every element not greater than it
RECURSIVE Sorted(_, _, _, _)
Sorted(heap, results, has_confidence, has_relevance) ==
    IF Len(results) = 0 THEN << >>
    ELSE LET front == Sorted(heap, SubSeq(results, 1, Len(results) - 1),
                             has_confidence, has_relevance)
             last == results[Len(results)]
             key(id) == SortKey(heap[id], has_confidence, has_relevance)
             n == Cardinality({ i \in 1..Len(front) : ~KeyLess(key(last), key(front[i])) })
         IN  SubSeq(front, 1, n) \o << last >> \o SubSeq(front, n + 1, Len(front))

\* _sort_results that always takes its last branch: by code only
SortByCode(heap, results) == Sorted(heap, results, FALSE, FALSE)

\* _sort_results
_sort_results(heap, results) ==
    Sorted(heap, results,
           \E i \in 1..Len(results) : "confidence" \in DOMAIN heap[results[i]],
           \E i \in 1..Len(results) : "relevance_score" \in DOMAIN heap[results[i]])

\* [m for m in materials if m.lower() in hts_description.lower()]
MaterialMatches(materials, hts_description) ==
    SelectSeq(materials, LAMBDA m : Contains(Lower(hts_description), Lower(m)))

\* function.lower() in hts_description.lower() if function else False
FunctionMatch(function, hts_description) ==
    Len(function) > 0 /\ Contains(Lower(hts_description), Lower(function))

\* result["search_terms"][0] if result["search_terms"] else ""
FirstTag(result) ==
    IF Len(result["search_terms"]) > 0 THEN result["search_terms"][1] ELSE << >>

\* xs with x appended when cond holds
AppendIf(cond, xs, x) == IF cond THEN Append(xs, x) ELSE xs

\* the reasons collected before the original reason is considered
Reasons(result, function, material_matches, product_description) ==
    AppendIf("search_terms" \in DOMAIN result /\ FirstTag(result) # product_description,
        AppendIf(FunctionMatch(function, Get(result, "description", << >>)),
            AppendIf(Len(material_matches) > 0, << >>,
                << "M", "a", "t", "e", "r", "i", "a", "l", " ", "m", "a", "t", "c", "h", ":", " " >>
                \o Join(material_matches, << ",", " " >>)),
            << "F", "u", "n", "c", "t", "i", "o", "n", " ", "m", "a", "t", "c", "h", ":", " " >>
            \o function),
        << "F", "o", "u", "n", "d", " ", "v", "i", "a", " ", "s", "e", "a", "r", "c", "h", " ", "t", "e", "r", "m", ":", " ", "'" >>
        \o FirstTag(result) \o << "'" >>)

\* the original confidence reason joins the list when it is new to it
WithOriginal(reasons, original_reason) ==
    AppendIf(Len(original_reason) > 0 /\ ~InList(reasons, original_reason),
             reasons, original_reason)

\* the update at the end of _enhance_confidence_reasoning
WriteReasoning(result, product_analysis, material_matches, detailed_reasoning) ==
    IF Len(detailed_reasoning) > 0
    THEN Put(Put(result, "confidence_reason", Join(detailed_reasoning, << " ", "|", " " >>)),
             "detailed_analysis",
             [ materials |-> Get(product_analysis, "MATERIALS", << >>),
               function |-> Get(product_analysis, "FUNCTION", << >>),
               industry_terms |-> Get(product_analysis, "INDUSTRY_TERMS", << >>),
               material_matches |-> material_matches,
               function_match |-> FunctionMatch(Get(product_analysis, "FUNCTION", << >>),
                                                Get(result, "description", << >>)) ])
    ELSE result

\* _enhance_confidence_reasoning from the material matches on
ReasonFrom(result, product_analysis, product_description, material_matches) ==
    WriteReasoning(result, product_analysis, material_matches,
                   WithOriginal(Reasons(result, Get(product_analysis, "FUNCTION", << >>),
                                        material_matches, product_description),
                                Get(result, "confidence_reason", << >>)))

\* _enhance_confidence_reasoning: the result dict afterwards
_enhance_confidence_reasoning(result, product_analysis, product_description) ==
    ReasonFrom(result, product_analysis, product_description,
               MaterialMatches(Get(product_analysis, "MATERIALS", << >>),
                               Get(result, "description", << >>)))

\* the loop that enhances every result of the list
EnhanceAll(heap, results, product_analysis, product_description) ==
    List([id \in 1..Len(heap) |->
        IF InList(results, id)
        THEN _enhance_confidence_reasoning(heap[id], product_analysis, product_description)
        ELSE heap[id]])

\* the product_analysis of analyze_product: << >> for None
ProductAnalysis(llm, product_description) ==
    IF is_enabled(llm) /\ AnalysisKey(product_description) \in DOMAIN llm.cache
    THEN << llm.cache[AnalysisKey(product_description)] >>
    ELSE << >>

\* step 4 of analyze_product and its return value, with what the steps
\* before it produced
SortStep(req, got, searched, unique_results, filtered_results, heap) ==
    [ value |-> [ product_description |-> req.product_description,
                  search_terms |-> got.terms,
                  origin_country |-> req.origin_country,
                  destination_country |-> req.destination_country,
                  hts_results |-> _sort_results(heap, filtered_results),
                  product_analysis |-> ProductAnalysis(got.llm, req.product_description) ],
      log |-> searched.log,
      all_results |-> searched.all_results,
      unique_results |-> unique_results,
      filtered_results |-> filtered_results,
      client |-> searched.client,
      llm |-> got.llm,
      heap |-> heap ]

\* the second half of step 3: `if product_analysis:` and the loop under it
EnhanceStep(got, product_description, filtered_results, heap) ==
    IF Len(ProductAnalysis(got.llm, product_description)) = 1
       /\ DOMAIN ProductAnalysis(got.llm, product_description)[1] # {}
    THEN EnhanceAll(heap, filtered_results,
                    ProductAnalysis(got.llm, product_description)[1], product_description)
    ELSE heap

\* step 3 without its test of the service: analyze_hs_code_confidence is
\* called on every analyzer and sets "Medium" itself when there is no backend
ConfidenceStepUnguarded(got, product_description, filtered, reply) ==
    EnhanceStep(got, product_description, filtered.results,
                analyze_hs_code_confidence(got.llm, product_description,
                                           filtered.results, filtered.heap, reply))

\* step 3 of analyze_product: the heap after it
ConfidenceStep(got, product_description, filtered, reply) ==
    IF is_enabled(got.llm)
    THEN EnhanceStep(got, product_description, filtered.results,
                     analyze_hs_code_confidence(got.llm, product_description,
                                                filtered.results, filtered.heap, reply))
    ELSE filtered.heap

\* analyze_product from the relevance filter's result on
AfterFilter(req, env, got, searched, unique_results, filtered) ==
    SortStep(req, got, searched, unique_results, filtered.results,
             ConfidenceStep(got, req.product_description, filtered, env.confidence))

\* analyze_product from the deduplicated list on
AfterDedup(req, env, got, searched, unique_results) ==
    AfterFilter(req, env, got, searched, unique_results,
                _filter_results_for_relevance(searched.heap, unique_results,
                                              req.product_description, got.terms))

\* analyze_product from the end of step 2 on
AfterSearch(req, env, got, searched) ==
    AfterDedup(req, env, got, searched,
               _deduplicate_results(searched.heap, searched.all_results))

\* analyze_product from the end of step 1 on
AfterTerms(client, heap, req, env, got) ==
    AfterSearch(req, env, got,
                SearchAll([client |-> client, heap |-> heap, all_results |-> << >>, log |-> << >>],
                          got.terms, env.remote))

\* analyze_product: req is [product_description, origin_country,
\* destination_country], env is [remote, enhance, confidence], the state of
\* the remote service and the replies of the backend during this call.  Gives
\* the dict returned (hts_results as ids), the intermediate lists, and the
\* client, the service and the heap afterwards.
analyze_product(client, llm, heap, req, env) ==
    AfterTerms(client, heap, req, env,
               _get_search_terms(llm, req.product_description, env.enhance))

\* cache_key of generate_tariff_explanation
ExplainKey(hts_code, origin, destination) ==
    << "e", "x", "p", "l", "a", "i", "n", "_" >> \o hts_code \o << "_" >> \o origin \o << "_" >> \o destination

\* the text generate_tariff_explanation returns when the backend call raises
ExplanationFallback(hts_code, description, rates) ==
    << "T", "h", "i", "s", " ", "p", "r", "o", "d", "u", "c", "t", " ", "(" >> \o description
    \o << ")", " ", "i", "s", " ", "c", "l", "a", "s", "s", "i", "f", "i", "e", "d", " ", "u", "n", "d", "e", "r", " ", "H", "T", "S", " ", "c", "o", "d", "e", " " >> \o hts_code
    \o << ".", " ", "T", "h", "e", " ", "g", "e", "n", "e", "r", "a", "l", " ", "d", "u", "t", "y", " ", "r", "a", "t", "e", " ", "i", "s", " " >> \o Get(rates, "general", << "u", "n", "k", "n", "o", "w", "n" >>)
    \o << ".", " ", "C", "h", "e", "c", "k", " ", "w", "i", "t", "h", " ", "a", " ", "c", "u", "s", "t", "o", "m", "s", " ", "b", "r", "o", "k", "e", "r", " ", "f", "o", "r", " ", "s", "p", "e", "c", "i", "f", "i", "c", " ", "d", "e", "t", "a", "i", "l", "s", "." >>

\* llm_service.generate_tariff_explanation(hts_code, description, rates,
\* countries, trade_agreements), `reply` being what the backend says when it
\* is asked.  Gives the text and the service afterwards.
generate_tariff_explanation(llm, hts_code, description, rates, origin, destination, reply) ==
    IF ~is_enabled(llm)
    THEN [ value |-> << "T", "a", "r", "i", "f", "f", " ", "i", "n", "f", "o", "r", "m", "a", "t", "i", "o", "n", " ", "f", "o", "r", " " >> \o description \o << " ", "(", "H", "T", "S", ":", " " >> \o hts_code \o << ")" >>,
           llm |-> llm ]
    ELSE IF llm.cache_enabled /\ ExplainKey(hts_code, origin, destination) \in DOMAIN llm.cache
    THEN [ value |-> llm.cache[ExplainKey(hts_code, origin, destination)], llm |-> llm ]
    ELSE IF reply.kind = "error"
    THEN [ value |-> ExplanationFallback(hts_code, description, rates), llm |-> llm ]
    ELSE [ value |-> Strip(reply.content, WhiteSpace),
           llm |-> IF llm.cache_enabled
                   THEN [llm EXCEPT !.cache = Put(@, ExplainKey(hts_code, origin, destination),
                                                  Strip(reply.content, WhiteSpace))]
                   ELSE llm ]

\* the structure get_tariff_document_data uses when get_hts_details gave None
MinimalDetails(hts_code) ==
    [ hts_code |-> hts_code,
      description |-> << "N", "o", " ", "d", "e", "s", "c", "r", "i", "p", "t", "i", "o", "n", " ", "a", "v", "a", "i", "l", "a", "b", "l", "e" >>,
      rates |-> [ general |-> << "N", "/", "A" >>, special |-> EmptyDict,
                  column2 |-> << "N", "/", "A" >> ] ]

\* hts_details of get_tariff_document_data
DetailsOrMinimal(hts_code, details) ==
    IF Len(details) = 0 THEN MinimalDetails(hts_code) ELSE details[1]

\* classification_analysis of get_tariff_document_data: << >> for None
ClassificationAnalysis(llm, product_description, hts_details) ==
    IF is_enabled(llm) /\ AnalysisKey(product_description) \in DOMAIN llm.cache
    THEN << Get(hts_details, "detailed_analysis", EmptyDict)
            @@ [ k \in { "confidence_reason" } \cap DOMAIN hts_details |-> hts_details[k] ]
            @@ [ materials |-> Get(llm.cache[AnalysisKey(product_description)], "MATERIALS", << >>),
                 function |-> Get(llm.cache[AnalysisKey(product_description)], "FUNCTION", << >>),
                 industry_terms |-> Get(llm.cache[AnalysisKey(product_description)], "INDUSTRY_TERMS", << >>),
                 hts_terminology |-> Get(llm.cache[AnalysisKey(product_description)], "HTS_TERMINOLOGY", << >>) ] >>
    ELSE << >>

\* document_data of get_tariff_document_data
DocumentData(req, hts_code, hts_details, trade_agreements, explanation, classification_analysis) ==
    [ k \in (IF Len(classification_analysis) > 0 THEN { "classification_analysis" } ELSE { }) |->
          classification_analysis[1] ]
    @@ [ product_description |-> req.product_description,
         hts_code |-> hts_code,
         hts_description |-> Get(hts_details, "description", << >>),
         rates |-> Get(hts_details, "rates", EmptyDict),
         unit_of_quantity |-> Get(hts_details, "unit_of_quantity", << >>),
         additional_info |-> Get(hts_details, "additional_info", << >>),
         origin_country |-> req.origin_country,
         destination_country |-> req.destination_country,
         trade_agreements |-> trade_agreements,
         explanation |-> explanation ]

\* get_tariff_document_data once the explanation was generated
Documented(req, hts_code, hts_details, looked, explained) ==
    [ value |-> DocumentData(req, hts_code, hts_details, looked.value, explained.value,
                             ClassificationAnalysis(explained.llm, req.product_description,
                                                    hts_details)),
      client |-> looked.client,
      llm |-> explained.llm,
      heap |-> looked.heap ]

\* get_tariff_document_data once the trade agreements were looked up
AfterEligibility(llm, req, hts_code, hts_details, looked, env) ==
    Documented(req, hts_code, hts_details, looked,
               IF is_enabled(llm)
               THEN generate_tariff_explanation(llm, hts_code,
                                                Get(hts_details, "description", << >>),
                                                Get(hts_details, "rates", EmptyDict),
                                                req.origin_country, req.destination_country,
                                                env.explain)
               ELSE [ value |-> << >>, llm |-> llm ])

\* get_tariff_document_data once get_hts_details returned
AfterDetails(llm, req, hts_code, got, env) ==
    AfterEligibility(llm, req, hts_code, DetailsOrMinimal(hts_code, got.details),
                     get_trade_agreement_eligibility(got.client, got.heap, hts_code,
                                                     req.origin_country,
                                                     req.destination_country,
                                                     env.eligibility),
                     env)

\* product_analyzer.get_tariff_document_data(product_description, hts_code,
\* origin_country, destination_country); req holds the description and the
\* countries, env the state of the remote service at each of the two lookups
\* and the reply of the backend.  Gives the dict returned and the client, the
\* service and the heap afterwards.
get_tariff_document_data(client, llm, heap, req, hts_code, env) ==
    AfterDetails(llm, req, hts_code,
                 get_hts_details(client, heap, hts_code, env.details), env)

(***************************************************************************)
(* The Strategy Composer page (app.py)                                     *)
(*                                                                         *)
(* A general rate is [t, v]: t the Python type of the value found under    *)
(* data['rates']['general'] and v the text of a str.                       *)
(***************************************************************************)

\* import_value = 2000000
import_value == 2000000

\* rate_str after strip() and the removal of one trailing '%'
RateStr(general_rate) ==
    IF EndsWith(Strip(general_rate.v, WhiteSpace), << "%" >>)
    THEN SubSeq(Strip(general_rate.v, WhiteSpace), 1, Len(Strip(general_rate.v, WhiteSpace)) - 1)
    ELSE Strip(general_rate.v, WhiteSpace)

\* the try block: an AttributeError for a value without strip(), a ValueError
\* of float(); else float(rate_str) / 100
TriedRate(general_rate) ==
    IF general_rate.t # "str" THEN Raised
    ELSE IF ToFloat(RateStr(general_rate)) = << >> THEN Raised
    ELSE Returned(Times(ToFloat(RateStr(general_rate))[1], 1, 100))

\* a duty rate whose default is 0.0, the value before the try block
DutyRateZero(tried) == IF tried.raised THEN Returned(Float(0, 1)) ELSE tried

\* try: ... except: duty_rate = 0.025
DutyRate(tried) == IF tried.raised THEN Returned(Float(25, 1000)) ELSE tried

\* savings in which the drawback refunds the whole duty
SavingsInFull(annual_duty) ==
    [origin_shift |-> annual_duty, drawback |-> annual_duty,
     first_sale |-> Times(annual_duty, 1, 10), diversification |-> annual_duty,
     tariff_engineering |-> annual_duty]

\* the "Savings" amounts of strategies_data
Savings(annual_duty) ==
    [origin_shift |-> annual_duty, drawback |-> Times(annual_duty, 99, 100),
     first_sale |-> Times(annual_duty, 1, 10), diversification |-> annual_duty,
     tariff_engineering |-> annual_duty]

\* the duty figures of the page for a general rate
Composed(duty_rate) ==
    IF duty_rate.raised THEN [raised |-> TRUE]
    ELSE [raised |-> FALSE, duty_rate |-> duty_rate.value,
          annual_duty |-> Times(duty_rate.value, import_value, 1),
          savings |-> Savings(Times(duty_rate.value, import_value, 1))]

\* the Strategy Composer section of the analysis page
strategy_composer(general_rate) == Composed(DutyRate(TriedRate(general_rate)))

(***************************************************************************)
(* The state machine                                                       *)
(***************************************************************************)

VARIABLES
    api_client,     \* USITCApiClient: [cache_enabled, cache]
    llm_service,    \* LLMService, or its absence: [enabled, cache_enabled, supports_json_format, cache]
    heap,           \* the result dicts created so far, by object id
    search_results, \* st.session_state.search_results: << >> (None) or << AnalysisResult >>
    selected_hts_code, \* st.session_state.selected_hts_code: << >> or << code >>
    document_data,  \* st.session_state.document_data: << >> or << dict >>
    pdf_buffer,     \* st.session_state.pdf_buffer: << >> or << buffer >>
    run,            \* what the last operation was given and did
    prev,           \* the same for the operation before it
    calls           \* the number of operations so far

\* the four variables the page keeps in st.session_state
session_state == << search_results, selected_hts_code, document_data, pdf_buffer >>

vars == << api_client, llm_service, heap, search_results, selected_hts_code,
           document_data, pdf_buffer, run, prev, calls >>

\* the number of operations of one behaviour
MaxCalls == 2

\* the dicts a list of ids stands for
Deref(h, ids) == List([i \in 1..Len(ids) |-> h[ids[i]]])

NoRun == [op |-> "none"]

\* the configurations the services are constructed in: the gateway with or
\* without its cache; no backend (no API key), or a backend with or without
\* its cache and on a model with or without JSON mode
LLMConfigs ==
    { [enabled |-> FALSE, cache_enabled |-> TRUE, supports_json_format |-> FALSE, cache |-> EmptyDict],
      [enabled |-> TRUE, cache_enabled |-> TRUE, supports_json_format |-> FALSE, cache |-> EmptyDict],
      [enabled |-> TRUE, cache_enabled |-> TRUE, supports_json_format |-> TRUE, cache |-> EmptyDict],
      [enabled |-> TRUE, cache_enabled |-> FALSE, supports_json_format |-> FALSE, cache |-> EmptyDict] }

Init ==
    /\ api_client \in [cache_enabled : BOOLEAN, cache : {EmptyDict}]
    /\ llm_service \in LLMConfigs
    /\ heap = << >>
    /\ search_results = << >>
    /\ selected_hts_code = << >>
    /\ document_data = << >>
    /\ pdf_buffer = << >>
    /\ run = NoRun
    /\ prev = NoRun
    /\ calls = 0

\* the replies the backend can give to the enhancement request of this call:
\* it is asked only when the service is enabled and its cache has no entry
EnhanceChoices(llm, product_description) ==
    IF is_enabled(llm)
       /\ ~(llm.cache_enabled /\ EnhanceKey(product_description) \in DOMAIN llm.cache)
    THEN EnhanceKinds
    ELSE { "unasked" }

\* the replies the backend can give to the confidence request of this call
ConfidenceChoices(llm) == IF is_enabled(llm) THEN ConfidenceKinds ELSE { "unasked" }

\* the search form without the three assignments of None after the results
\* are stored
StoreKeepingSelection(req, world, enhance_kind, confidence_kind, done) ==
    /\ api_client' = done.client
    /\ llm_service' = done.llm
    /\ heap' = done.heap
    /\ search_results' = << done.value >>
    /\ UNCHANGED << selected_hts_code, document_data, pdf_buffer >>
    /\ prev' = run
    /\ run' = [ op |-> "analyze_product",
                product_description |-> req.product_description,
                world |-> world,
                enhance_kind |-> enhance_kind,
                confidence_kind |-> confidence_kind,
                search_terms |-> done.value.search_terms,
                log |-> done.log,
                all_results |-> done.all_results,
                unique_results |-> done.unique_results,
                filtered_results |-> done.filtered_results,
                hts_results |-> done.value.hts_results,
                returned |-> Deref(done.heap, done.value.hts_results) ]

\* the caller stores what analyze_product returned; run records the call
Store(req, world, enhance_kind, confidence_kind, done) ==
    /\ api_client' = done.client
    /\ llm_service' = done.llm
    /\ heap' = done.heap
    /\ search_results' = << done.value >>
    /\ selected_hts_code' = << >>
    /\ document_data' = << >>
    /\ pdf_buffer' = << >>
    /\ prev' = run
    /\ run' = [ op |-> "analyze_product",
                product_description |-> req.product_description,
                world |-> world,
                enhance_kind |-> enhance_kind,
                confidence_kind |-> confidence_kind,
                search_terms |-> done.value.search_terms,
                log |-> done.log,
                all_results |-> done.all_results,
                unique_results |-> done.unique_results,
                filtered_results |-> done.filtered_results,
                hts_results |-> done.value.hts_results,
                returned |-> Deref(done.heap, done.value.hts_results) ]

\* product_analyzer.analyze_product(description, origin, destination), called
\* by the search form, which stores the result in the session
AnalyzeProduct(product_description, lane, world, enhance_kind, confidence_kind) ==
    /\ calls < MaxCalls
    /\ calls' = calls + 1
    /\ Store([ product_description |-> product_description,
               origin_country |-> lane[1], destination_country |-> lane[2] ],
             world, enhance_kind, confidence_kind,
             analyze_product(api_client, llm_service, heap,
                             [ product_description |-> product_description,
                               origin_country |-> lane[1], destination_country |-> lane[2] ],
                             [ remote |-> world,
                               enhance |-> EnhanceReply(llm_service, enhance_kind, product_description),
                               confidence |-> ConfidenceReply(confidence_kind) ]))

\* the codes and the (origin, destination) pairs eligibility is asked for
DetailCodes ==
    { << "8", "7", "0", "8", ".", "1", "0" >>, << "8", "7", "0", "8", ".", "2", "9" >>,
      << "7", "3", "1", "8", ".", "1", "5" >>, << "8", "7", "0", "8" >> }

DetailLanes ==
    { << << "M", "X" >>, << "U", "S" >> >>, << << "M", "X" >>, << "C", "A" >> >> }

\* the gateway's state after the lookup; run records the call
Looked(hts_code, lane, world, done) ==
    /\ api_client' = done.client
    /\ heap' = done.heap
    /\ UNCHANGED << llm_service, session_state >>
    /\ prev' = run
    /\ run' = [ op |-> "get_trade_agreement_eligibility",
                hts_code |-> hts_code,
                origin |-> lane[1],
                destination |-> lane[2],
                world |-> world,
                hts_details |-> done.hts_details,
                value |-> done.value ]

\* api_client.get_trade_agreement_eligibility(hts_code, origin, destination)
GetTradeAgreementEligibility(hts_code, lane, world) ==
    /\ calls < MaxCalls
    /\ calls' = calls + 1
    /\ Looked(hts_code, lane, world,
              get_trade_agreement_eligibility(api_client, heap, hts_code,
                                              lane[1], lane[2], world))

\* queries that differ from the description Bumper in case or in whitespace
NearQueries ==
    { << "b", "u", "m", "p", "e", "r" >>, << "B", "u", "m", "p", "e", "r", " " >> }

\* the gateway's state after search(query); run records the call
Searched(query, world, done) ==
    /\ api_client' = done.client
    /\ heap' = done.heap
    /\ UNCHANGED << llm_service, session_state >>
    /\ prev' = run
    /\ run' = [ op |-> "search", query |-> query, world |-> world,
                log |-> << [ term |-> query, results |-> done.results,
                             contacted |-> done.contacted,
                             fell_back |-> done.fell_back ] >> ]

\* api_client.search(query)
GatewaySearch(query, world) ==
    /\ calls < MaxCalls
    /\ calls' = calls + 1
    /\ Searched(query, world, search(api_client, heap, query, world))

Next ==
    \/ \E query \in NearQueries, w \in Worlds : GatewaySearch(query, w)
    \/ \E d \in Descriptions, lane \in Lanes, w \in Worlds :
          \E e \in EnhanceChoices(llm_service, d), c \in ConfidenceChoices(llm_service) :
              AnalyzeProduct(d, lane, w, e, c)
    \/ \E hts_code \in DetailCodes, lane \in DetailLanes, w \in Worlds :
          GetTradeAgreementEligibility(hts_code, lane, w)

Spec == Init /\ [][Next]_vars

(***************************************************************************)
(* The pages of app.py: the search form of the Search page and the         *)
(* analysis form of the Results page, on the services initialize_services  *)
(* builds                                                                  *)
(***************************************************************************)

\* the number of form submissions of one session
MaxSubmissions == 3

\* the remote service during a submission: it answers, or it does not
SessionWorlds == { "up", "down" }

\* what the backend says when asked to explain a tariff: the call raises, or
\* it replies with a text
ExplainKinds == { "error", "text" }

ExplainReply(kind) ==
    IF kind = "error" THEN [kind |-> "error"]
    ELSE [kind |-> "ok", content |-> << " ", "D", "u", "t", "y", " ", "a", "p", "p", "l", "i", "e", "s", ".", " " >>]

\* the backend is asked only when there is one
ExplainChoices(llm) == IF is_enabled(llm) THEN ExplainKinds ELSE { "unasked" }

\* initialize_services, and the session state of a new session
InitSession ==
    /\ api_client = [cache_enabled |-> TRUE, cache |-> EmptyDict]
    /\ llm_service \in { llm \in LLMConfigs : llm.cache_enabled }
    /\ heap = << >>
    /\ search_results = << >>
    /\ selected_hts_code = << >>
    /\ document_data = << >>
    /\ pdf_buffer = << >>
    /\ run = NoRun
    /\ prev = NoRun
    /\ calls = 0

\* the search form, analyze_product returning: the results are stored and the
\* selection, the document data and the PDF are cleared
SearchSubmitted(product_description, lane, world, enhance_kind, confidence_kind) ==
    /\ calls < MaxSubmissions
    /\ calls' = calls + 1
    /\ Store([ product_description |-> product_description,
               origin_country |-> lane[1], destination_country |-> lane[2] ],
             world, enhance_kind, confidence_kind,
             analyze_product(api_client, llm_service, heap,
                             [ product_description |-> product_description,
                               origin_country |-> lane[1], destination_country |-> lane[2] ],
                             [ remote |-> world,
                               enhance |-> EnhanceReply(llm_service, enhance_kind, product_description),
                               confidence |-> ConfidenceReply(confidence_kind) ]))

\* the services when analyze_product raises after its searches
Interrupted(got, searched) ==
    [ client |-> searched.client, llm |-> got.llm, heap |-> searched.heap ]

\* analyze_product up to the end of step 2
SearchedFor(client, h, got, remote) ==
    Interrupted(got, SearchAll([client |-> client, heap |-> h, all_results |-> << >>, log |-> << >>],
                               got.terms, remote))

\* the except branch of the search form: the error is displayed
Failed(product_description, world, done) ==
    /\ api_client' = done.client
    /\ llm_service' = done.llm
    /\ heap' = done.heap
    /\ UNCHANGED session_state
    /\ prev' = run
    /\ run' = [ op |-> "search_failed", product_description |-> product_description,
                world |-> world ]

\* the search form, analyze_product raising once its searches are done (a
\* record whose description is no str makes description.lower() raise)
SearchRaised(product_description, world, enhance_kind) ==
    /\ calls < MaxSubmissions
    /\ calls' = calls + 1
    /\ Failed(product_description, world,
              SearchedFor(api_client, heap,
                          _get_search_terms(llm_service, product_description,
                                            EnhanceReply(llm_service, enhance_kind,
                                                         product_description)),
                          world))

\* the analysis form once get_tariff_document_data returned: the selected code
\* and the document data are stored
Analysed(req, hts_code, env, done) ==
    /\ api_client' = done.client
    /\ llm_service' = done.llm
    /\ heap' = done.heap
    /\ selected_hts_code' = << hts_code >>
    /\ document_data' = << done.value >>
    /\ UNCHANGED << search_results, pdf_buffer >>
    /\ prev' = run
    /\ run' = [ op |-> "get_tariff_document_data",
                product_description |-> req.product_description,
                hts_code |-> hts_code,
                env |-> env,
                value |-> done.value ]

\* the analysis form for the code `hts_code` of the select box
AnalysisOf(req, hts_code, env) ==
    Analysed(req, hts_code, env,
             get_tariff_document_data(api_client, llm_service, heap, req, hts_code, env))

\* the indexes of the select box of the Results page: none without results
Selectable ==
    IF search_results = << >> THEN { } ELSE 1..Len(search_results[1].hts_results)

\* the analysis form of the Results page, submitted with the result at
\* `selected_index` of the current results selected
AnalysisSubmitted(selected_index, details_world, eligibility_world, explain_kind) ==
    /\ calls < MaxSubmissions
    /\ selected_index \in Selectable
    /\ calls' = calls + 1
    /\ AnalysisOf([ product_description |-> search_results[1].product_description,
                    origin_country |-> search_results[1].origin_country,
                    destination_country |-> search_results[1].destination_country ],
                  heap[search_results[1].hts_results[selected_index]].hts_code,
                  [ details |-> details_world, eligibility |-> eligibility_world,
                    explain |-> ExplainReply(explain_kind) ])

NextSession ==
    \/ \E d \in Descriptions, lane \in Lanes, w \in SessionWorlds :
          \E e \in EnhanceChoices(llm_service, d), c \in ConfidenceChoices(llm_service) :
              SearchSubmitted(d, lane, w, e, c)
    \/ \E d \in Descriptions, w \in SessionWorlds :
          \E e \in EnhanceChoices(llm_service, d) : SearchRaised(d, w, e)
    \/ \E selected_index \in Selectable, w1 \in SessionWorlds, w2 \in SessionWorlds :
          \E x \in ExplainChoices(llm_service) : AnalysisSubmitted(selected_index, w1, w2, x)

SpecSession == InitSession /\ [][NextSession]_vars

(***************************************************************************)
(* The functions on their own: the list functions of ProductAnalyzer and   *)
(* _parse_special_rates, applied once to inputs drawn from bounded sets    *)
(***************************************************************************)

\* the longest list of results, and the most items of a special-rate string
MaxResults == 3
MaxItems == 2

\* a result dict as _parse_result_item builds it, with the keys in `extras`
\* that the pipeline has written into it since
Candidate(hts_code, description, extras) ==
    extras @@ CodeRecord(hts_code, description, NA, EmptyDict, NA, "", "")

Candidates ==
    { Candidate(<< "8", "7", "0", "8", ".", "1", "0" >>, << "S", "t", "e", "e", "l", " ", "b", "u", "m", "p", "e", "r", "s" >>,
                [search_terms |-> << Bumper >>, relevance_score |-> 5, confidence |-> "High"]),
      Candidate(<< "8", "7", "0", "8", ".", "2", "9" >>, << "B", "o", "d", "y" >>,
                [relevance_score |-> 5, confidence |-> "High"]),
      Candidate(<< "8", "7", "0", "8", ".", "1", "0" >>, << "B", "u", "m", "p", "e", "r", "s" >>,
                [relevance_score |-> 5, confidence |-> "Low"]),
      Candidate(<< "0", "1", "0", "2", ".", "2", "1" >>, << "C", "a", "t", "t", "l", "e" >>, EmptyDict),
      Candidate(<< "0", "1", "0", "2", ".", "2", "9" >>, << "C", "a", "t", "t", "l", "e" >>,
                [search_terms |-> << << "B", "o", "l", "t", "s" >> >>]),
      Candidate(<< "7", "3", "1", "8", ".", "1", "5" >>, << "B", "o", "l", "t", "s" >>, [relevance_score |-> 1]),
      Candidate(<< "8", "7", "0", "8", ".", "1", "0" >>, << "B", "o", "l", "t", "s" >>, EmptyDict),
      Candidate(<< "8", "7", "0", "8", ".", "1", "0" >>,
                << "B", "o", "l", "t", "s", " ", "o", "f", " ", "8", "7", "0", "8", ".", "1", "0" >>, EmptyDict),
      Candidate(<< "0", "0", "0", "0", ".", "0", "0", ".", "0", "0", "0", "0" >>, << "N", "o", " ", "m", "a", "t", "c", "h", "i", "n", "g", " ", "H", "T", "S", " ", "c", "o", "d", "e", " ", "f", "o", "u", "n", "d" >>,
                [search_terms |-> << << "b", "o", "l", "t", "s" >> >>, confidence |-> "Medium"]) }

\* the lists of at most MaxResults result dicts
CandidateLists == UNION { [1..n -> Candidates] : n \in 0..MaxResults }

\* the list of all the objects of a heap, in order of creation
Ids(h) == List([i \in 1..Len(h) |-> i])

\* the descriptions the filter is given: those a user types, one that names
\* two product categories and one that names none
FilterDescriptions ==
    Descriptions
    \cup { << "b", "u", "m", "p", "e", "r", " ", "f", "a", "s", "t", "e", "n", "e", "r" >>,
           << "B", "o", "l", "t", "s" >> }

\* the term lists the filter is given for a description
FilterTerms(product_description) ==
    { << product_description >>,
      << << "b", "u", "m", "p", "e", "r", "s" >>, product_description, << "8", "7", "0", "8", ".", "1", "0" >> >>,
      << << "8", "7", "0", "8", ".", "1", "0" >>, product_description >> }

\* the items of a special-rate string: (key, rate) pairs with distinct keys
RateLists ==
    UNION { { items \in [1..n -> { << "C", "A" >>, << "M", "X" >>, << "A", "U" >> }
                                 \X { << "F", "r", "e", "e" >>, << "0", "%" >> }] :
                \A i, j \in 1..n : i # j => items[i][1] # items[j][1] }
            : n \in 1..MaxItems }

\* the items written as key:rate and joined with ";"
Written(items) ==
    Join([i \in 1..Len(items) |-> items[i][1] \o << ":" >> \o items[i][2]], << ";" >>)

InitFunctions ==
    /\ api_client = [cache_enabled |-> TRUE, cache |-> EmptyDict]
    /\ llm_service = [enabled |-> FALSE, cache_enabled |-> TRUE,
                      supports_json_format |-> FALSE, cache |-> EmptyDict]
    /\ heap \in CandidateLists
    /\ search_results = << >>
    /\ selected_hts_code = << >>
    /\ document_data = << >>
    /\ pdf_buffer = << >>
    /\ run = NoRun
    /\ prev = NoRun
    /\ calls = 0

\* _filter_results_for_relevance(results, product_description, search_terms)
FilterResults(product_description, search_terms) ==
    LET out == _filter_results_for_relevance(heap, Ids(heap), product_description, search_terms)
    IN  /\ run = NoRun
        /\ heap' = out.heap
        /\ run' = [ op |-> "_filter_results_for_relevance",
                    product_description |-> product_description,
                    search_terms |-> search_terms,
                    results |-> Ids(heap),
                    before |-> heap,
                    out |-> out.results ]
        /\ UNCHANGED << api_client, llm_service, session_state, prev, calls >>

\* _sort_results(results)
SortResults ==
    /\ run = NoRun
    /\ run' = [ op |-> "_sort_results", results |-> Ids(heap),
                out |-> _sort_results(heap, Ids(heap)) ]
    /\ UNCHANGED << api_client, llm_service, heap, session_state, prev, calls >>

\* _deduplicate_results(results): the raw hit list holds every object once,
\* or twice when two searches returned the same cached list
DeduplicateResults(twice) ==
    /\ run = NoRun
    /\ run' = [ op |-> "_deduplicate_results",
                results |-> IF twice THEN Ids(heap) \o Ids(heap) ELSE Ids(heap),
                out |-> _deduplicate_results(heap, IF twice THEN Ids(heap) \o Ids(heap)
                                                   ELSE Ids(heap)) ]
    /\ UNCHANGED << api_client, llm_service, heap, session_state, prev, calls >>

\* _parse_special_rates(special_rates) on a string
ParseSpecialRates(items) ==
    /\ run = NoRun
    /\ run' = [ op |-> "_parse_special_rates",
                items |-> items,
                special_rates |-> Written(items),
                parsed |-> _parse_special_rates([t |-> "str", v |-> Written(items)]) ]
    /\ UNCHANGED << api_client, llm_service, heap, session_state, prev, calls >>

\* the queries search is given: two keywords, a code, and a text that holds
\* four digits after its start
Queries ==
    { Bumper, << "b", "o", "l", "t", "s" >>, << "8", "7", "0", "8", ".", "1", "0" >>,
      << "p", "a", "r", "t", " ", "8", "7", "0", "8" >> }

\* the states of the remote service search is tried in: up, with each shape of
\* the response body, and down
SearchWorlds == Shapes \cup { "down" }

\* what search returned: the records, and whether they are the fallback
Outcome(searched) ==
    [ records |-> Deref(searched.heap, searched.results),
      contacted |-> searched.contacted,
      fell_back |-> searched.fell_back ]

\* search(query) on a new gateway, for each shape of the response body and
\* for a remote service that is down
Search(query) ==
    /\ run = NoRun
    /\ heap = << >>
    /\ run' = [ op |-> "search", query |-> query,
                found |-> [ world \in SearchWorlds |->
                              Outcome(search(api_client, heap, query, world)) ] ]
    /\ UNCHANGED << api_client, llm_service, heap, session_state, prev, calls >>

\* the texts of a general rate: numbers with and without the percent sign,
\* with blanks, a sign, an exponent, an underscore; "Free", "N/A" and others
\* that are no number
RateTexts ==
    { << "2", ".", "5", "%" >>, << "2", ".", "5" >>, << " ", "2", ".", "5", "%", " " >>,
      << "2", ".", "5", " ", "%" >>, << "0", "%" >>, << "5", "%" >>, << "1", "0", "%" >>,
      << "6", ".", "2", "5", "%" >>, << ".", "5", "%" >>, << "5", ".", "%" >>,
      << "+", "3", "%" >>, << "-", "1", "%" >>, << "1", "e", "1", "%" >>,
      << "2", "5", "E", "-", "1", "%" >>, << "1", "_", "0", "%" >>, << "1", "0", "0", "%" >>,
      << "i", "n", "f" >>, << "N", "a", "N", "%" >>,
      << "a", "b", "c", "%" >>, << "F", "r", "e", "e" >>, << "N", "/", "A" >>, << >>,
      << "%" >>, << "2", ".", "5", "%", "%" >>, << "%", "2", ".", "5" >>,
      << "2", ".", "5", ".", "1", "%" >>, << "2", " ", "5", "%" >>, << "_", "1", "%" >>,
      << "1", "e", "%" >>, << "-", "%" >>, << "2", ".", "5", "*" >> }

\* the general rates of the page: a text, or a value that is no str
GeneralRates ==
    { [t |-> "str", v |-> text] : text \in RateTexts }
    \cup { [t |-> "NoneType", v |-> << >>], [t |-> "float", v |-> << "2", ".", "5" >>],
           [t |-> "dict", v |-> << >>] }

\* the Strategy Composer section of the page, for a general rate
StrategyComposer(general_rate) ==
    /\ run = NoRun
    /\ heap = << >>
    /\ run' = [ op |-> "strategy_composer", general_rate |-> general_rate,
                page |-> strategy_composer(general_rate) ]
    /\ UNCHANGED << api_client, llm_service, heap, session_state, prev, calls >>

\* the text of each confidence level
LevelText ==
    ("High" :> << "H", "i", "g", "h" >>) @@ ("Medium" :> << "M", "e", "d", "i", "u", "m" >>)
    @@ ("Low" :> << "L", "o", "w" >>)

\* the lines of a confidence reply: of the form asked for in the prompt,
\* "N. Level: reason", with N in or out of range and a reason that does or does
\* not repeat the level; without the number; without the colon
ConfidenceLines ==
    { [form |-> "prompted", number |-> << "1" >>, level |-> "High", reason |-> << "a", "p", "t" >>],
      [form |-> "prompted", number |-> << "1" >>, level |-> "Low", reason |-> << "l", "o", "w", " ", "f", "i", "t" >>],
      [form |-> "prompted", number |-> << "2" >>, level |-> "Low", reason |-> << "p", "o", "o", "r" >>],
      [form |-> "prompted", number |-> << "9" >>, level |-> "High", reason |-> << "h", "i", "g", "h" >>],
      [form |-> "no_number", number |-> << >>, level |-> "High", reason |-> << "h", "i", "g", "h" >>],
      [form |-> "no_colon", number |-> << "1" >>, level |-> "Low", reason |-> << >>] }

\* a line as the backend writes it
LineText(line) ==
    IF line.form = "prompted"
    THEN line.number \o << ".", " " >> \o LevelText[line.level] \o << ":", " " >> \o line.reason
    ELSE IF line.form = "no_number" THEN LevelText[line.level] \o << ":", " " >> \o line.reason
    ELSE line.number \o << ".", " " >> \o LevelText[line.level]

\* replies of one or two lines
ConfidenceLineLists == UNION { [1..n -> ConfidenceLines] : n \in 1..2 }

\* analyze_hs_code_confidence(product_description, hts_results) on a service
\* with a backend that replies with these lines
AnalyzeConfidence(lines) ==
    /\ run = NoRun
    /\ heap # << >>
    /\ heap' = analyze_hs_code_confidence(
                   [llm_service EXCEPT !.enabled = TRUE], Bumper, Ids(heap), heap,
                   [kind |-> "ok",
                    content |-> Join([k \in 1..Len(lines) |-> LineText(lines[k])], << "\n" >>)])
    /\ run' = [ op |-> "analyze_hs_code_confidence", lines |-> lines,
                results |-> Ids(heap), before |-> heap ]
    /\ UNCHANGED << api_client, llm_service, session_state, prev, calls >>

\* items of a response: with both a code and a description, with one of the
\* two, with neither, with an empty description, and with an empty code under
\* the first spelling and a code under the second
ResponseItemSet ==
    { ItemBumper, ItemBumperAlt, ItemBolt, ItemNoDescription,
      [ desc |-> << "B", "u", "m", "p", "e", "r", "s" >> ],
      [ general |-> << "2", ".", "5", "%" >> ],
      [ htsno |-> << "8", "7", "0", "8", ".", "1", "0" >>, description |-> << >> ],
      [ htsno |-> << >>, hts_code |-> << "8", "7", "0", "8", ".", "1", "0" >>,
        description |-> << "B", "u", "m", "p", "e", "r", "s" >> ] }

\* _parse_result_item(item)
ParseResultItem(item) ==
    /\ run = NoRun
    /\ heap = << >>
    /\ run' = [ op |-> "_parse_result_item", item |-> item, parsed |-> _parse_result_item(item) ]
    /\ UNCHANGED << api_client, llm_service, heap, session_state, prev, calls >>

NextFunctions ==
    \/ \E query \in Queries : Search(query)
    \/ \E d \in FilterDescriptions : \E terms \in FilterTerms(d) : FilterResults(d, terms)
    \/ SortResults
    \/ \E twice \in BOOLEAN : DeduplicateResults(twice)
    \/ \E items \in RateLists : ParseSpecialRates(items)
    \/ \E general_rate \in GeneralRates : StrategyComposer(general_rate)
    \/ \E lines \in ConfidenceLineLists : AnalyzeConfidence(lines)
    \/ \E item \in ResponseItemSet : ParseResultItem(item)

SpecFunctions == InitFunctions /\ [][NextFunctions]_vars

(***************************************************************************)
(* Properties                                                              *)
(***************************************************************************)

\* result.get("relevance_score", 0) of a result dict
RelevanceOf(result) == Get(result, "relevance_score", 0)

\* two lists of distinct objects hold the same objects
SameObjects(xs, ys) ==
    /\ Len(xs) = Len(ys)
    /\ { xs[i] : i \in 1..Len(xs) } = { ys[i] : i \in 1..Len(ys) }

\* no result given to the filter reaches a relevance score of 1
NoneRelevant ==
    \A i \in 1..Len(run.results) :
        RelevanceScore(run.before[run.results[i]], run.product_description,
                       run.search_terms) < 1

\* C1: the relevance filter fails open.  Given a non-empty list it returns a
\* non-empty list, and when no result of the list reaches a relevance score
\* of 1 it returns exactly the list it was given: the same records in the
\* same order, none of them changed.
C1_FailOpen ==
    run.op = "_filter_results_for_relevance" /\ Len(run.results) > 0 =>
        /\ Len(run.out) > 0
        /\ NoneRelevant =>
              /\ run.out = run.results
              /\ Deref(heap, run.out) = Deref(run.before, run.results)

\* the filter was given two results or more, none of them relevant, and
\* returned them all
C1_Witness ==
    /\ run.op = "_filter_results_for_relevance"
    /\ Len(run.results) >= 2
    /\ NoneRelevant
    /\ run.out = run.results

\* the request search(query) sends
RequestOf(query) ==
    IF LooksLikeCode(query) THEN ExportUrl(query) ELSE SearchUrl(query)

\* a response that is a failure of the remote service
IsFailure(resp) == resp.kind # "http" \/ resp.status # 200 \/ ~resp.json_ok

\* whether the remote service fails the request of search(query)
RemoteFails(world, query) == IsFailure(RemoteAnswer(world, RequestOf(query)))

\* the search of the i-th term of the last call asked the remote service,
\* and the remote service failed
FailedSearch(i) ==
    run.log[i].contacted /\ RemoteFails(run.world, run.log[i].term)

\* a result dict carries the fallback marker
IsMarkedFallback(result) ==
    \E key \in { "is_fallback", "isFallback" } : key \in DOMAIN result /\ result[key] = TRUE

\* C2: search never raises on a failure of the remote service (connection
\* error, timeout, non-200 status): it returns a list of exactly one record,
\* and that record carries the fallback marker the caller reads.
C2_FallbackMarked ==
    run.op = "analyze_product" =>
        \A i \in 1..Len(run.log) :
            FailedSearch(i) =>
                /\ Len(run.log[i].results) = 1
                /\ IsMarkedFallback(heap[run.log[i].results[1]])

\* C3: the term list always contains the original description: the list
\* analyze_product searched with, and in every state the service can be in,
\* for every description and every reply of the backend, the lists that
\* enhance_search_query and _get_search_terms return.
C3_DescriptionAmongTerms ==
    /\ run.op = "analyze_product" => InList(run.search_terms, run.product_description)
    /\ \A d \in Descriptions : \A e \in EnhanceChoices(llm_service, d) :
          /\ InList(enhance_search_query(llm_service, d,
                                         EnhanceReply(llm_service, e, d)).terms, d)
          /\ InList(_get_search_terms(llm_service, d,
                                      EnhanceReply(llm_service, e, d)).terms, d)

\* a call answered from the service's cache, whose list holds the
\* description after the terms of a reply that did not name it
C3_Witness ==
    /\ run.op = "analyze_product"
    /\ is_enabled(llm_service)
    /\ run.enhance_kind = "unasked"
    /\ run.product_description = Bumper
    /\ Len(run.search_terms) = 3
    /\ run.search_terms[2] = Bumper

\* C4: ranking is deterministic.  Two consecutive analyze_product calls on
\* the same analyzer with the same description and term list, the remote
\* service in the same state and the backend replying the same, return the
\* same records in the same order with the same field values.
C4_Deterministic ==
    /\ run.op = "analyze_product" /\ prev.op = "analyze_product"
    /\ run.product_description = prev.product_description
    /\ run.world = prev.world
    /\ run.enhance_kind \in { prev.enhance_kind, "unasked" }
    /\ run.confidence_kind = prev.confidence_kind
    /\ run.search_terms = prev.search_terms
    => run.returned = prev.returned

\* C5: a failure of the remote service on one term, while the search of
\* another term found records, contributes no candidate: no record of the
\* final result comes from the search that failed.
C5_FailedTermContributesNothing ==
    run.op = "analyze_product" =>
        \A i \in 1..Len(run.log) :
            FailedSearch(i) /\ (\E j \in 1..Len(run.log) : ~run.log[j].fell_back) =>
                \A k \in 1..Len(run.log[i].results) :
                    ~InList(run.hts_results, run.log[i].results[k])

\* a before b in the relevance-only order: descending relevance score, then
\* ascending code (b's code not less than a's)
RelevanceOrdered(a, b) ==
    \/ RelevanceOf(a) > RelevanceOf(b)
    \/ RelevanceOf(a) = RelevanceOf(b) /\ ~StrLess(CodeOf(b), CodeOf(a))

\* C6: when the backend raises during confidence scoring, analyze_product
\* returns all the filtered candidates, in the relevance-only order:
\* descending relevance score, then ascending code.
C6_RelevanceOnlyOrder ==
    run.op = "analyze_product" /\ run.confidence_kind = "error" =>
        /\ SameObjects(run.hts_results, run.filtered_results)
        /\ \A i, j \in 1..Len(run.returned) :
              i < j => RelevanceOrdered(run.returned[i], run.returned[j])

\* a call whose confidence request failed and that returned a record of
\* higher relevance before one of a smaller code
C6_Witness ==
    /\ run.op = "analyze_product"
    /\ run.confidence_kind = "error"
    /\ Len(run.returned) >= 2
    /\ RelevanceOf(run.returned[1]) > RelevanceOf(run.returned[2])
    /\ StrLess(CodeOf(run.returned[2]), CodeOf(run.returned[1]))

\* the rank the ordering gives a confidence: High 3, Medium 2, Low 1, and
\* Medium when the record has none
RankOf(result) ==
    CASE "confidence" \notin DOMAIN result -> 2
      [] result["confidence"] = "High" -> 3
      [] result["confidence"] = "Medium" -> 2
      [] result["confidence"] = "Low" -> 1
      [] OTHER -> 0

\* a before b in the final order: descending relevance score, then
\* descending confidence rank, then ascending code
FinalOrdered(a, b) ==
    \/ RelevanceOf(a) > RelevanceOf(b)
    \/ RelevanceOf(a) = RelevanceOf(b) /\ RankOf(a) > RankOf(b)
    \/ RelevanceOf(a) = RelevanceOf(b) /\ RankOf(a) = RankOf(b)
       /\ ~StrLess(CodeOf(b), CodeOf(a))

C8_MergedSourceTerms ==
    run.op = "analyze_product" =>
        \A i \in 1..Len(run.unique_results) :
            /\ \A j \in 1..Len(run.unique_results) :
                  i # j => CodeOf(heap[run.unique_results[i]]) # CodeOf(heap[run.unique_results[j]])
            /\ \E a \in 1..Len(run.all_results) :
                  /\ run.all_results[a] = run.unique_results[i]
                  /\ \A b \in 1..(a - 1) :
                        CodeOf(heap[run.all_results[b]]) # CodeOf(heap[run.unique_results[i]])
            /\ \A e \in 1..Len(run.log) :
                  (\E k \in 1..Len(run.log[e].results) :
                      CodeOf(heap[run.log[e].results[k]]) = CodeOf(heap[run.unique_results[i]]))
                  => InList(Get(heap[run.unique_results[i]], "search_terms", << >>),
                            run.log[e].term)

\* C9: deduplication is idempotent: _deduplicate_results applied to its own
\* output gives that output again, the same records in the same order.
C9_DedupIdempotent ==
    run.op = "_deduplicate_results" =>
        _deduplicate_results(heap, run.out) = run.out

\* a deduplication that dropped a record and kept two or more
C9_Witness ==
    /\ run.op = "_deduplicate_results"
    /\ run.results = Ids(heap)
    /\ Len(run.out) >= 2
    /\ Len(run.out) < Len(run.results)

\* C10: a special-rate string of key:rate items joined by ";", a single
\* item included, parses to the mapping with exactly those keys and rates.
C10_SpecialRateString ==
    run.op = "_parse_special_rates" =>
        /\ DOMAIN run.parsed = { run.items[i][1] : i \in 1..Len(run.items) }
        /\ \A i \in 1..Len(run.items) : run.parsed[run.items[i][1]] = run.items[i][2]

\* the special-rates mapping of the record the last eligibility call looked up
LookedUpRates == Get(Get(run.hts_details[1], "rates", EmptyDict), "special", EmptyDict)

\* C11: for origin MX and destination US, whenever the special-rates mapping
\* of the looked-up record holds the key "MX", eligible_agreements holds a
\* USMCA entry whose rate is the value stored under "MX", whatever other
\* keys the mapping holds.
C11_UsmcaRateOfMexico ==
    /\ run.op = "get_trade_agreement_eligibility"
    /\ run.origin = << "M", "X" >> /\ run.destination = << "U", "S" >>
    /\ Len(run.hts_details) = 1
    /\ << "M", "X" >> \in DOMAIN LookedUpRates
    => \E i \in 1..Len(run.value.eligible_agreements) :
          /\ run.value.eligible_agreements[i].agreement = "USMCA"
          /\ run.value.eligible_agreements[i].rate = LookedUpRates[<< "M", "X" >>]

\* C12: a 200 response whose body is a bare list, an object with a
\* "results" list or an object with nested data.items gives, through search,
\* the same records in the three cases, and they are the records parsed from
\* the items, not a fallback record.
C12_ShapesAgree ==
    run.op = "search" =>
        \A shape \in Shapes :
            /\ run.found[shape].records = run.found["up"].records
            /\ run.found[shape].fell_back = run.found["up"].fell_back

\* the backend is asked for the terms of a description: the service is
\* enabled and its cache holds no terms for it
Asked(product_description) ==
    /\ is_enabled(llm_service)
    /\ ~(llm_service.cache_enabled
         /\ EnhanceKey(product_description) \in DOMAIN llm_service.cache)

\* the replies on which enhance_search_query raises: the call itself fails,
\* or, in JSON mode, the payload does not decode
FailingKinds ==
    IF llm_service.supports_json_format THEN { "error", "malformed" } ELSE { "error" }

\* C13: enhance_search_query returns exactly [description], and leaves the
\* service as it was, both when no backend is configured and when the backend
\* call or the handling of its payload raises.
C13_FailureLikeNoBackend ==
    \A d \in Descriptions :
        /\ ~is_enabled(llm_service) =>
              enhance_search_query(llm_service, d, [kind |-> "error"])
                  = [terms |-> << d >>, llm |-> llm_service]
        /\ Asked(d) =>
              \A kind \in FailingKinds :
                  enhance_search_query(llm_service, d, EnhanceReply(llm_service, kind, d))
                      = [terms |-> << d >>, llm |-> llm_service]

\* a call on a JSON-mode service whose payload did not decode, after a call
\* that left an analysis of another description in the cache
C13_Witness ==
    /\ run.op = "analyze_product"
    /\ run.enhance_kind = "malformed"
    /\ llm_service.supports_json_format
    /\ run.search_terms = << run.product_description >>
    /\ DOMAIN llm_service.cache # {}
    /\ Asked(run.product_description)

\* the i-th search of the step's operation found its query in the cache: the
\* cache is enabled and held the query before the operation, or an earlier
\* search of the operation was given the same query
Stored(i) ==
    /\ api_client.cache_enabled
    /\ \/ run'.log[i].term \in DOMAIN api_client.cache
       \/ \E j \in 1..(i - 1) : run'.log[j].term = run'.log[i].term

\* what a step does to the gateway's cache
CacheStep ==
    /\ \A q \in DOMAIN api_client.cache :
          q \in DOMAIN api_client'.cache /\ api_client'.cache[q] = api_client.cache[q]
    /\ ~api_client.cache_enabled => api_client'.cache = EmptyDict
    /\ run'.op \in { "analyze_product", "search" } =>
          \A i \in 1..Len(run'.log) :
              /\ api_client.cache_enabled =>
                    /\ run'.log[i].term \in DOMAIN api_client'.cache
                    /\ api_client'.cache[run'.log[i].term] = run'.log[i].results
              /\ run'.log[i].contacted = ~Stored(i)

\* C14: with caching enabled a search whose exact query string was searched
\* before returns the stored list without contacting the remote service, an
\* entry is never evicted or replaced, and any other query (one that differs
\* in case or whitespace too) contacts the remote service and is stored; with
\* caching disabled every search contacts the remote service and nothing is
\* stored.
C14_GatewayCache == [][CacheStep]_vars

\* with caching enabled and "Bumper" stored, a search of "bumper" or of
\* "Bumper " contacted the remote service and was stored beside it
C14_Witness ==
    /\ run.op = "search"
    /\ api_client.cache_enabled
    /\ prev.op = "analyze_product"
    /\ Bumper \in DOMAIN api_client.cache
    /\ run.query \in NearQueries
    /\ run.log[1].contacted
    /\ api_client.cache[run.query] # api_client.cache[Bumper]

\* C15: a result is immutable once produced: whatever operation follows an
\* analyze_product call, the records of the result that call returned keep
\* every field they were returned with.
C15_ResultImmutable ==
    prev.op = "analyze_product" =>
        Deref(heap, prev.hts_results) = prev.returned

\* a result meets a bumper condition: its code starts with "8708.10" or its
\* description holds "bumper"
IsBumperPart(result) ==
    \/ StartsWith(Lower(result.hts_code), << "8", "7", "0", "8", ".", "1", "0" >>)
    \/ Contains(Lower(result.description), << "b", "u", "m", "p", "e", "r" >>)

\* the points a result has from the search terms of the filter's call
TermPointsOf(result) ==
    TermPoints(List([i \in 1..Len(run.search_terms) |-> Lower(run.search_terms[i])]),
               Lower(result.description), Lower(result.hts_code))

\* the content words of the description of the filter's call that the
\* result's description holds
WordsFound(result) ==
    { w \in ProductWords(run.product_description) : Contains(Lower(result.description), w) }

\* the score the filter of the last call computes for a result it was given
ScoreIn(result) == RelevanceScore(result, run.product_description, run.search_terms)

\* two results are alike in the scoring inputs other than the category:
\* term matches, content-word matches and source terms
AlikeButCategory(a, b) ==
    /\ TermPointsOf(a) = TermPointsOf(b)
    /\ WordsFound(a) = WordsFound(b)
    /\ Get(a, "search_terms", << >>) = Get(b, "search_terms", << >>)

\* C16: for a description holding "bumper", a candidate whose code starts
\* with "8708.10" or whose description holds "bumper" scores exactly 5 more
\* than a candidate alike in every other scoring input that meets neither
\* condition.
C16_BumperBonus ==
    /\ run.op = "_filter_results_for_relevance"
    /\ Contains(Lower(run.product_description), << "b", "u", "m", "p", "e", "r" >>)
    => \A i, j \in 1..Len(run.before) :
          /\ IsBumperPart(run.before[i])
          /\ ~IsBumperPart(run.before[j])
          /\ AlikeButCategory(run.before[i], run.before[j])
          => ScoreIn(run.before[i]) = ScoreIn(run.before[j]) + 5

\* the percentage a general rate parses as: << >> when it does not parse
\* after stripping whitespace and one trailing "%"
PercentageOf(general_rate) ==
    IF general_rate.t # "str" THEN << >> ELSE ToFloat(RateStr(general_rate))

\* a whole number of dollars
Dollars(n) == Float(n, 1)

\* C17: for a general rate that parses as a percentage p the baseline duty is
\* 2,000,000 * p / 100, the drawback figure 99% of it, the first-sale figure
\* 10% of it, and the three other figures the baseline duty itself; the rate
\* "2.5%" gives a duty of 50,000 and a drawback of 49,500.
C17_ComposerArithmetic ==
    /\ run.op = "strategy_composer"
    /\ PercentageOf(run.general_rate) # << >>
    => /\ ~run.page.raised
       /\ run.page.annual_duty = Times(PercentageOf(run.general_rate)[1], 2000000, 100)
       /\ run.page.savings.drawback = Times(run.page.annual_duty, 99, 100)
       /\ run.page.savings.first_sale = Times(run.page.annual_duty, 10, 100)
       /\ run.page.savings.origin_shift = run.page.annual_duty
       /\ run.page.savings.diversification = run.page.annual_duty
       /\ run.page.savings.tariff_engineering = run.page.annual_duty
       /\ run.general_rate.v = << "2", ".", "5", "%" >>
          => /\ run.page.annual_duty = Dollars(50000)
             /\ run.page.savings.drawback = Dollars(49500)

\* a run of the page for the rate "6.25%": a duty of 125,000 and a drawback
\* of 123,750
C17_Witness ==
    /\ run.op = "strategy_composer"
    /\ run.general_rate = [t |-> "str", v |-> << "6", ".", "2", "5", "%" >>]
    /\ run.page.annual_duty = Dollars(125000)
    /\ run.page.savings.drawback = Dollars(123750)

\* C18: for a general rate that does not parse as a number after stripping
\* whitespace and one trailing "%", a value that is no string included, the
\* duty rate is 0.025 and the baseline duty 50,000, and no error leaves the
\* computation.
C18_RateFallback ==
    /\ run.op = "strategy_composer"
    /\ PercentageOf(run.general_rate) = << >>
    => /\ ~run.page.raised
       /\ run.page.duty_rate = Float(25, 1000)
       /\ run.page.annual_duty = Dollars(50000)

\* a run of the page for a general rate that is no string
C18_Witness ==
    /\ run.op = "strategy_composer"
    /\ run.general_rate.t = "NoneType"
    /\ ~run.page.raised
    /\ run.page.annual_duty = Dollars(50000)

\* a record of the livestock heading
IsLivestock(result) == StartsWith(Get(result, "hts_code", << >>), << "0", "1", "0", "2" >>)

\* C19: no record whose code starts with "0102" is in the list that
\* _filter_results_for_relevance returns.
C19_NoLivestock ==
    run.op = "_filter_results_for_relevance"
    => \A i \in 1..Len(run.out) : ~IsLivestock(heap[run.out[i]])

\* the description of the filter's call holds none of the domain keywords
NoDomainKeyword ==
    /\ ~Contains(Lower(run.product_description), << "b", "u", "m", "p", "e", "r" >>)
    /\ ~Contains(Lower(run.product_description), << "f", "a", "s", "t", "e", "n", "e", "r" >>)
    /\ ~Contains(Lower(run.product_description), << "p", "l", "a", "s", "t", "i", "c" >>)

\* the search terms of the filter's call found in a result's description,
\* case-folded, by their positions in the list
TermsFound(result) ==
    { k \in 1..Len(run.search_terms) :
        Contains(Lower(result.description), Lower(run.search_terms[k])) }

\* the term at position k is made of digits and dots and is in the result's code
IsCodeHit(result, k) ==
    /\ \A c \in 1..Len(run.search_terms[k]) : run.search_terms[k][c] \in Digits \cup {"."}
    /\ \E c \in 1..Len(run.search_terms[k]) : run.search_terms[k][c] \in Digits
    /\ Contains(Lower(result.hts_code), Lower(run.search_terms[k]))

\* the points for content words and for a tag equal to the description
WordAndTagPoints(result) ==
    Cardinality(WordsFound(result))
    + (IF \E k \in 1..Len(Get(result, "search_terms", << >>)) :
             Lower(result.search_terms[k]) = Lower(run.product_description)
       THEN 2 ELSE 0)

\* the score as stated: 3 for a term found, 5 more when a term found is a code hit
StatedScore(result) ==
    (IF TermsFound(result) = {} THEN 0
     ELSE 3 + (IF \E k \in TermsFound(result) : IsCodeHit(result, k) THEN 5 ELSE 0))
    + WordAndTagPoints(result)

\* the score with the first term found deciding the 5 points
FirstTermScore(result) ==
    (IF TermsFound(result) = {} THEN 0
     ELSE 3 + (IF IsCodeHit(result, CHOOSE k \in TermsFound(result) :
                                       \A m \in TermsFound(result) : k <= m)
               THEN 5 ELSE 0))
    + WordAndTagPoints(result)

\* the result at position i of the list given is in the list returned
Retained(i) == \E j \in 1..Len(run.out) : run.out[j] = run.results[i]

\* the filter of the last call kept a result: it did not fall back on the list
\* it was given
SomeKept ==
    \E i \in 1..Len(run.before) :
        ~IsLivestock(run.before[i]) /\ ScoreIn(run.before[i]) >= 1

\* C20 as stated: for a description without domain keywords a candidate is
\* retained exactly when its stated score is at least 1, and the
\* relevance_score recorded on a retained candidate is its stated score.
C20_StatedScore ==
    /\ run.op = "_filter_results_for_relevance"
    /\ NoDomainKeyword
    => \A i \in 1..Len(run.before) :
          /\ Retained(i) <=> StatedScore(run.before[i]) >= 1
          /\ Retained(i)
             => /\ "relevance_score" \in DOMAIN heap[run.results[i]]
                /\ heap[run.results[i]].relevance_score = StatedScore(run.before[i])

\* C20: for a description without domain keywords the score of a candidate
\* is 3 if a term is found in its description, plus 5 if the first term
\* found, in the order of the list, is made of digits and dots and is found
\* in its code, plus 1 for each content word found, plus 2 for a tag equal to
\* the description.  When some candidate outside the livestock heading scores
\* at least 1, a candidate is retained exactly when its code does not start
\* with "0102" and its score is at least 1, and the score is recorded on it;
\* otherwise every candidate is retained and none is written to.
C20_FirstTermScore ==
    /\ run.op = "_filter_results_for_relevance"
    /\ NoDomainKeyword
    => \A i \in 1..Len(run.before) :
          /\ ScoreIn(run.before[i]) = FirstTermScore(run.before[i])
          /\ SomeKept
             => /\ Retained(i) <=> /\ ~IsLivestock(run.before[i])
                                   /\ FirstTermScore(run.before[i]) >= 1
                /\ Retained(i)
                   => /\ "relevance_score" \in DOMAIN heap[run.results[i]]
                      /\ heap[run.results[i]].relevance_score = FirstTermScore(run.before[i])
          /\ ~SomeKept => Retained(i) /\ heap[run.results[i]] = run.before[i]

\* a candidate retained with a score of 4: the first term found in its
\* description is no code, and a later term is a code found in its code
C20_Witness ==
    /\ run.op = "_filter_results_for_relevance"
    /\ NoDomainKeyword
    /\ \E i \in 1..Len(run.before) :
          /\ Retained(i)
          /\ Get(heap[run.results[i]], "relevance_score", 0) = 4
          /\ \E k \in TermsFound(run.before[i]) : IsCodeHit(run.before[i], k)
          /\ StatedScore(run.before[i]) = 9

\* the bonus of each keyword rule that applies to a result, added up
SumOfBonuses(result) ==
    (IF /\ Contains(Lower(run.product_description), << "b", "u", "m", "p", "e", "r" >>)
        /\ IsBumperPart(result)
     THEN 5 ELSE 0)
    + (IF /\ Contains(Lower(run.product_description), << "f", "a", "s", "t", "e", "n", "e", "r" >>)
          /\ \/ Contains(Lower(result.description), << "f", "a", "s", "t", "e", "n", "e", "r" >>)
             \/ Contains(Lower(result.description), << "s", "c", "r", "e", "w" >>)
             \/ Contains(Lower(result.description), << "b", "o", "l", "t" >>)
       THEN 4 ELSE 0)
    + (IF /\ Contains(Lower(run.product_description), << "p", "l", "a", "s", "t", "i", "c" >>)
          /\ Contains(Lower(result.description), << "p", "l", "a", "s", "t", "i", "c" >>)
       THEN 3 ELSE 0)

\* C21: the domain bonuses are applied independently: the score of a
\* candidate is its points for terms, content words and tags plus the bonus
\* of every keyword rule whose keyword is in the description and whose
\* condition the candidate meets.
C21_IndependentBonuses ==
    run.op = "_filter_results_for_relevance"
    => \A i \in 1..Len(run.before) :
          ScoreIn(run.before[i])
          = TermPointsOf(run.before[i]) + WordAndTagPoints(run.before[i])
            + SumOfBonuses(run.before[i])

\* the lines of the reply of the form asked for that number candidate i
LinesFor(i) ==
    { k \in 1..Len(run.lines) :
        run.lines[k].form = "prompted" /\ ToInt(run.lines[k].number) = i }

\* the last of the lines of the reply for candidate i
LastLineFor(i) == run.lines[CHOOSE k \in LinesFor(i) : \A m \in LinesFor(i) : m <= k]

\* a record to which no line applies: as it was, or with the default when it
\* had no confidence
Unlabelled(before, after) ==
    IF "confidence" \in DOMAIN before THEN after = before
    ELSE after = Put(Put(before, "confidence", "Medium"), "confidence_reason",
                     << "D", "e", "f", "a", "u", "l", "t", " ", "a", "s", "s", "e", "s", "s", "m", "e", "n", "t" >>)

\* C22: a line "N. Level: reason" of the reply with N the number of a
\* candidate sets that candidate's confidence to Level; lines without a
\* number, without a colon or with N out of range change no candidate.
C22_ConfidenceLabel ==
    run.op = "analyze_hs_code_confidence"
    => \A i \in 1..Len(run.results) :
          IF LinesFor(i) # {}
          THEN heap[run.results[i]].confidence = LastLineFor(i).level
          ELSE Unlabelled(run.before[i], heap[run.results[i]])

\* the numbers of the candidates that the reply of the last call labels
LabelledBy(confidence_kind) == IF confidence_kind = "lines" THEN {1, 2} ELSE {}

\* the backend answered the confidence request of the last call
BackendResponded ==
    /\ run.op = "analyze_product"
    /\ run.confidence_kind \in { "lines", "unclear" }

\* the candidates sent to the backend in the last call for which its reply
\* holds no line, by their positions in the list sent
Unlabelled_ids ==
    { run.filtered_results[i] :
        i \in (1..Len(run.filtered_results)) \ LabelledBy(run.confidence_kind) }

\* C23: in every call of a sequence of analyze_product calls in which the
\* backend responds, a candidate for which the reply holds no line ends with
\* confidence "Medium" and the reason "Default assessment".
C23_DefaultConfidence ==
    BackendResponded
    => \A id \in Unlabelled_ids :
          /\ Get(heap[id], "confidence", "") = "Medium"
          /\ Contains(Get(heap[id], "confidence_reason", << >>),
                      << "D", "e", "f", "a", "u", "l", "t", " ", "a", "s", "s", "e", "s", "s", "m", "e", "n", "t" >>)

\* the last call was an analyze_product on an analyzer without a backend
NoBackendCall == run.op = "analyze_product" /\ ~is_enabled(llm_service)

\* C24 as stated: without a backend every candidate returned by
\* analyze_product has the confidence "Medium" and no confidence reason.
C24_MediumWithoutBackend ==
    NoBackendCall
    => \A i \in 1..Len(run.returned) :
          /\ "confidence" \in DOMAIN run.returned[i]
          /\ run.returned[i].confidence = "Medium"
          /\ "confidence_reason" \notin DOMAIN run.returned[i]

\* C24: without a backend no candidate returned by analyze_product carries a
\* confidence or a confidence reason, so that a reader who takes "Medium" for
\* a missing confidence, as the results page does, finds "Medium" and no reason.
C24_NoConfidenceWithoutBackend ==
    NoBackendCall
    => \A i \in 1..Len(run.returned) :
          /\ "confidence" \notin DOMAIN run.returned[i]
          /\ "confidence_reason" \notin DOMAIN run.returned[i]

\* a second call without a backend that returns real records of the service
C24_Witness ==
    /\ NoBackendCall
    /\ prev.op = "analyze_product"
    /\ Len(run.returned) > 1
    /\ \E i \in 1..Len(run.log) : ~run.log[i].fell_back

\* the spellings of the code field and of the description field, in the
\* order in which they are tried
CodeAliases == << "htsno", "hts_code", "htsCode", "code", "number", "htsNumber" >>
DescriptionAliases == << "description", "desc", "text", "title", "htsDescription" >>

\* the item holds a non-empty value under one of the spellings
FoundUnderAny(item, aliases) ==
    \E k \in 1..Len(aliases) : aliases[k] \in DOMAIN item /\ item[aliases[k]] # << >>

\* the item holds a non-empty value under the first of the spellings it has
FoundUnderFirst(item, aliases) ==
    \E k \in 1..Len(aliases) :
        /\ aliases[k] \in DOMAIN item
        /\ item[aliases[k]] # << >>
        /\ \A m \in 1..(k - 1) : aliases[m] \notin DOMAIN item

\* C25 as stated: an item is discarded only when neither a code nor a
\* description is found under any spelling; an item with one of the two is kept.
C25_KeptWithEither ==
    run.op = "_parse_result_item"
    => (run.parsed = << >>
        <=> ~FoundUnderAny(run.item, CodeAliases) /\ ~FoundUnderAny(run.item, DescriptionAliases))

\* C25: an item is kept exactly when it holds both a code and a description,
\* each non-empty under the first of its spellings that the item has; an item
\* with only one of the two is discarded.
C25_KeptWithBoth ==
    run.op = "_parse_result_item"
    => (run.parsed # << >>
        <=> FoundUnderFirst(run.item, CodeAliases) /\ FoundUnderFirst(run.item, DescriptionAliases))

\* an item with a code and no description, discarded
C25_Witness ==
    /\ run.op = "_parse_result_item"
    /\ FoundUnderAny(run.item, CodeAliases)
    /\ ~FoundUnderAny(run.item, DescriptionAliases)
    /\ run.parsed = << >>

\* the text of the record that echoes a code
NotAvailable ==
    << "H", "T", "S", " ", "c", "o", "d", "e", " ", "i", "n", "f", "o", "r", "m", "a", "t", "i", "o", "n", " ", "n", "o", "t", " ", "a", "v", "a", "i", "l", "a", "b", "l", "e" >>

\* C26: when the lookup fails, a query routed as a code yields one record
\* that echoes the code with the "not available" text, and a query routed as
\* free text yields the placeholder record with the code "0000.00.0000".
C26_FallbackFollowsRouting ==
    run.op = "search"
    => /\ run.found["down"].fell_back
       /\ Len(run.found["down"].records) = 1
       /\ IF LooksLikeCode(run.query)
          THEN /\ run.found["down"].records[1].hts_code = run.query
               /\ run.found["down"].records[1].description = NotAvailable
          ELSE run.found["down"].records[1].hts_code
               = << "0", "0", "0", "0", ".", "0", "0", ".", "0", "0", "0", "0" >>

\* C27: search returns a non-empty list for every query, whether the remote
\* service has records for it, has none, or fails, and analyze_product
\* returns at least one candidate.
C27_NonEmpty ==
    /\ run.op \in { "search", "analyze_product" }
       => \A i \in 1..Len(run.log) : Len(run.log[i].results) >= 1
    /\ run.op = "analyze_product" => Len(run.hts_results) >= 1

\* an analyze_product call during which the remote service is down, and a
\* search for which the service has no record
C27_Witness ==
    /\ run.op = "analyze_product"
    /\ run.world = "down"
    /\ Len(run.hts_results) >= 1
    /\ prev.op = "search"
    /\ prev.world = "up"
    /\ prev.log[1].fell_back

\* the call before the last searched term t, the remote service failed it
\* and the search fell back
FellBackBefore(t) ==
    /\ prev.op \in { "search", "analyze_product" }
    /\ RemoteFails(prev.world, t)
    /\ \E j \in 1..Len(prev.log) : prev.log[j].term = t /\ prev.log[j].fell_back

\* the last call was made with a backend that failed the call before on the
\* same description
ExpanderFailedBefore ==
    /\ prev.op = "analyze_product"
    /\ prev.enhance_kind = "error"
    /\ run.op = "analyze_product"
    /\ run.product_description = prev.product_description

\* C28: with caching enabled, a search that fell back because the remote
\* service failed is not served from the cache afterwards: a later search of
\* the same query, with the service up again, contacts the service; and a
\* backend that failed to expand a description is asked again on the next call.
C28_RecoveryAfterFailure ==
    /\ /\ run.op \in { "search", "analyze_product" }
       /\ api_client.cache_enabled
       /\ run.world = "up"
       => \A i \in 1..Len(run.log) :
             FellBackBefore(run.log[i].term) /\ ~RemoteFails(run.world, run.log[i].term)
             => run.log[i].contacted
    /\ ExpanderFailedBefore => run.enhance_kind # "unasked"

\* C29: get_hts_details always returns a record, and the code of the record
\* is the code asked for: the record of the export or of the search with
\* that code, or a fallback record that echoes it.
C29_DetailsOfRequestedCode ==
    /\ run.op = "get_trade_agreement_eligibility"
    /\ run.destination = << "U", "S" >>
    => /\ Len(run.hts_details) = 1
       /\ run.hts_details[1].hts_code = run.hts_code

\* the codes of the results the session holds
CurrentCodes ==
    IF search_results = << >> THEN { }
    ELSE { heap[search_results[1].hts_results[i]].hts_code :
               i \in 1..Len(search_results[1].hts_results) }

\* the document data, when there are any, are about the description and one
\* of the codes of the results the session holds
FromCurrentResults ==
    document_data # << >> =>
        /\ search_results # << >>
        /\ document_data[1].product_description = search_results[1].product_description
        /\ document_data[1].hts_code \in CurrentCodes

\* the session holds what the last operation, a search, returned, and nothing
\* of an earlier selection
FreshResults ==
    /\ search_results # << >>
    /\ search_results[1].product_description = run.product_description
    /\ search_results[1].search_terms = run.search_terms
    /\ search_results[1].hts_results = run.hts_results
    /\ selected_hts_code = << >>
    /\ document_data = << >>
    /\ pdf_buffer = << >>

\* C30: in every state of a session, document data that are not None were
\* generated from the search results the session holds (the same product
\* description, and a code that is one of the results' codes); a search
\* submission that succeeds stores the new results and sets selected_hts_code,
\* document_data and pdf_buffer to None; a search that raises leaves the four
\* session variables as they were.
C30_SessionConsistency ==
    /\ FromCurrentResults
    /\ [][ /\ FromCurrentResults'
           /\ run'.op = "analyze_product" => FreshResults'
           /\ run'.op = "search_failed" => session_state' = session_state ]_vars

\* a search for another description has just cleared the analysis that the
\* submission before it generated
C30_Witness ==
    /\ run.op = "analyze_product"
    /\ prev.op = "get_tariff_document_data"
    /\ prev.product_description # run.product_description
    /\ prev.hts_code \notin CurrentCodes
    /\ document_data = << >>
    /\ selected_hts_code = << >>

====
